---- MODULE Spec2Model ----
(***************************************************************************)
(* A model of the mahjong prototype (src/prototype): the tile domain and   *)
(* the static tables of tiles.py, the shanten evaluators of shanten.py and *)
(* the PlayerHand object of playerhand.py.                                 *)
(*                                                                         *)
(* A collections.Counter is modelled as a total function from its key      *)
(* range to integers; a key is "in" the Counter when its count is not 0    *)
(* in the places where the code builds the Counter with & or -, which      *)
(* keep positive counts only.                                              *)
(***************************************************************************)
EXTENDS Integers, Sequences, FiniteSets, TLC

VARIABLES
    hand,       \* the Counter a caller passes to a shanten evaluator
    passed,     \* the contents of hand when the call was made
    called,     \* the evaluator that was called on hand ("" before the call)
    ret,        \* what the call returned or raised
    \* a PlayerHand object
    concealed,          \* self._concealed, a Counter
    exposed,            \* self._exposed, a list of melds
    claimable_chow,     \* self.claimable_chow
    claimable_pung,     \* self.claimable_pung
    claimable_kong,     \* self.claimable_kong
    shanten_std,        \* self.shanten_std
    shanten_7,          \* self.shanten_7
    shanten_13,         \* self.shanten_13
    last,               \* the method of the object that ran last
    raised,             \* the exception that method raised ("" for none)
    args,               \* the arguments of the commit_* method that ran last,
                        \* or the string a PlayerHand was built from
    claimed,            \* every commit so far was of a tile that can_claim_*
                        \* answered True for
    phase,              \* a Phase object: prevalent_wind, hand, counter
    twin                \* a second PlayerHand built from the collection and the
                        \* exposed list the first was built from: its concealed
                        \* and exposed parts, the type of the collection
                        \* (source) and the caller's exposed list
                        \* (given_exposed); hand is the caller's collection

evaluator_vars == <<hand, passed, called, ret>>
hand_vars ==
    <<concealed, exposed, claimable_chow, claimable_pung, claimable_kong,
      shanten_std, shanten_7, shanten_13, last, raised>>
call_vars == <<args, claimed>>
other_vars == <<phase, twin>>
vars == <<evaluator_vars, hand_vars, call_vars, other_vars>>

-----------------------------------------------------------------------------
(* tiles.py: the tile domain *)

\* 0x1F000, MAHJONG TILE EAST WIND
TILE_EAST_WIND == 126976

TILE_RANGE == TILE_EAST_WIND .. (TILE_EAST_WIND + 33)
TILE_RANGE_WINDS == TILE_EAST_WIND .. (TILE_EAST_WIND + 3)
TILE_RANGE_DRAGONS == (TILE_EAST_WIND + 4) .. (TILE_EAST_WIND + 6)
TILE_RANGE_HONORS == TILE_EAST_WIND .. (TILE_EAST_WIND + 6)
TILE_RANGE_CHARACTERS == (TILE_EAST_WIND + 7) .. (TILE_EAST_WIND + 15)
TILE_RANGE_BAMBOOS == (TILE_EAST_WIND + 16) .. (TILE_EAST_WIND + 24)
TILE_RANGE_CIRCLES == (TILE_EAST_WIND + 25) .. (TILE_EAST_WIND + 33)
TILE_RANGE_SUITS == (TILE_EAST_WIND + 7) .. (TILE_EAST_WIND + 33)

TILE_ONE_OF_CHARACTERS == TILE_EAST_WIND + 7
TILE_ONE_OF_BAMBOOS == TILE_EAST_WIND + 16
TILE_ONE_OF_CIRCLES == TILE_EAST_WIND + 25

TILE_TERMINALS ==
    { TILE_ONE_OF_CHARACTERS, TILE_ONE_OF_CHARACTERS + 8,
      TILE_ONE_OF_CIRCLES, TILE_ONE_OF_CIRCLES + 8,
      TILE_ONE_OF_BAMBOOS, TILE_ONE_OF_BAMBOOS + 8 }

-----------------------------------------------------------------------------
(* collections.Counter *)

Max(a, b) == IF a >= b THEN a ELSE b
Min(a, b) == IF a <= b THEN a ELSE b

\* Counter(): no key
EmptyCounter(keys) == [k \in keys |-> 0]

\* a & b: the minimum of the counts, positive counts only
CounterAnd(a, b) == [k \in DOMAIN a |-> Max(0, Min(a[k], b[k]))]

\* CounterSub giving up every copy of a key of b
CounterSubAll(a, b) == [k \in DOMAIN a |-> IF b[k] > 0 THEN 0 ELSE a[k]]

\* a - b and a -= b: the difference of the counts, positive counts only
CounterSub(a, b) == [k \in DOMAIN a |-> Max(0, a[k] - b[k])]

\* a.subtract(b): the difference of the counts, zero and negative counts kept
CounterSubtract(a, b) == [k \in DOMAIN a |-> a[k] - b[k]]

\* a == b
CounterEq(a, b) == \A k \in DOMAIN a : a[k] = b[k]

\* the keys of a Counter built by & or -
Keys(a) == {k \in DOMAIN a : a[k] # 0}

RECURSIVE SumOver(_, _)
SumOver(a, S) ==
    IF S = {} THEN 0
    ELSE LET k == CHOOSE x \in S : TRUE IN a[k] + SumOver(a, S \ {k})

\* sum(a.values())
CounterTotal(a) == SumOver(a, DOMAIN a)

-----------------------------------------------------------------------------
(* tiles.py: filters and static tables *)

MaxCopies == 4

_create_filter(tile_range) ==
    [k \in TILE_RANGE |-> IF k \in tile_range THEN MaxCopies ELSE 0]

FILTER_HONORS == _create_filter(TILE_RANGE_HONORS)
FILTER_CHARACTERS == _create_filter(TILE_RANGE_CHARACTERS)
FILTER_CIRCLES == _create_filter(TILE_RANGE_CIRCLES)
FILTER_BAMBOOS == _create_filter(TILE_RANGE_BAMBOOS)

\* the keys a converted suit part can have: k - first + 1 for
\* first <= k <= first + 9
NUMBER_RANGE == 1 .. 10

\* Counter({i: 3}) and Counter([i, i + 1, i + 2]) over the numbers
NumberPung(i) == [k \in NUMBER_RANGE |-> IF k = i THEN 3 ELSE 0]
NumberChow(i) == [k \in NUMBER_RANGE |-> IF k \in i .. (i + 2) THEN 1 ELSE 0]

\* _generate_all_melds_suit with a chow from 8 as well: eight chows
RECURSIVE MeldsWithChowFromEight(_)
MeldsWithChowFromEight(i) ==
    IF i > 9 THEN <<>>
    ELSE <<NumberPung(i)>>
         \o (IF i + 1 <= 9 THEN <<NumberChow(i)>> ELSE <<>>)
         \o MeldsWithChowFromEight(i + 1)

\* 111, 123, 222, 234, ..., 777, 789, 888, 999
RECURSIVE _generate_all_melds_suit(_)
_generate_all_melds_suit(i) ==
    IF i > 9 THEN <<>>
    ELSE <<NumberPung(i)>>
         \o (IF i + 2 <= 9 THEN <<NumberChow(i)>> ELSE <<>>)
         \o _generate_all_melds_suit(i + 1)

MELDS_NUMBER == _generate_all_melds_suit(1)

\* MELDS_HONOR with the runs of three honors of successive identifiers as well
MeldsHonorWithRuns ==
    [n \in 1 .. 12 |->
        [k \in TILE_RANGE |->
            IF n <= 7 THEN (IF k = TILE_EAST_WIND + n - 1 THEN 3 ELSE 0)
            ELSE (IF k \in (TILE_EAST_WIND + n - 8) .. (TILE_EAST_WIND + n - 6)
                  THEN 1 ELSE 0)]]

MELDS_HONOR ==
    [n \in 1 .. 7 |->
        [k \in TILE_RANGE |-> IF k = TILE_EAST_WIND + n - 1 THEN 3 ELSE 0]]

\* Counter((i, j)) over the numbers
NumberPair(i, j) ==
    [k \in NUMBER_RANGE |-> (IF k = i THEN 1 ELSE 0) + (IF k = j THEN 1 ELSE 0)]

\* (1,1), (1,2), (1,3), (2,2), ..., (8,8), (8,9), (9,9)
RECURSIVE _generate_all_pairs_suit(_)
_generate_all_pairs_suit(i) ==
    IF i > 9 THEN <<>>
    ELSE <<NumberPair(i, i)>>
         \o (IF i < 9 THEN <<NumberPair(i, i + 1)>> ELSE <<>>)
         \o (IF i < 8 THEN <<NumberPair(i, i + 2)>> ELSE <<>>)
         \o _generate_all_pairs_suit(i + 1)

PAIRS_NUMBER == _generate_all_pairs_suit(1)

PAIRS_HONOR ==
    [n \in 1 .. 7 |->
        [k \in TILE_RANGE |-> IF k = TILE_EAST_WIND + n - 1 THEN 2 ELSE 0]]

THIRTEEN_ORPHANS ==
    [k \in TILE_RANGE |->
        IF k \in TILE_TERMINALS \cup TILE_RANGE_HONORS THEN 1 ELSE 0]

-----------------------------------------------------------------------------
(* tiles.py: convert_suit_to_number *)

\* source.most_common(1)[0][0]: a key of the highest count
MostCommon(source) ==
    CHOOSE k \in Keys(source) : \A j \in Keys(source) : source[j] <= source[k]

\* A Counter of tiles of one suit to a Counter of the numbers 1..9; raised is
\* "ValueError" where the code raises.
convert_suit_to_number(source) ==
    IF Keys(source) = {}
    THEN [raised |-> "", counter |-> EmptyCounter(NUMBER_RANGE)]
    ELSE LET tile_id == MostCommon(source)
             known == tile_id \in TILE_RANGE_SUITS
             first == IF tile_id \in TILE_RANGE_CHARACTERS THEN TILE_ONE_OF_CHARACTERS
                      ELSE IF tile_id \in TILE_RANGE_CIRCLES THEN TILE_ONE_OF_CIRCLES
                      ELSE TILE_ONE_OF_BAMBOOS
         IN  IF known /\ \A k \in Keys(source) : first <= k /\ k <= first + 9
             THEN [raised |-> "",
                   counter |-> [n \in NUMBER_RANGE |->
                       IF n + first - 1 \in DOMAIN source
                       THEN source[n + first - 1] ELSE 0]]
             ELSE [raised |-> "ValueError", counter |-> EmptyCounter(NUMBER_RANGE)]

-----------------------------------------------------------------------------
(* shanten.py: remove_melds, remove_pairs *)

\* RemoveLoop with "if" for "while": a group is removed once at most.
RECURSIVE RemoveLoopOnce(_, _, _, _, _, _)
RemoveLoopOnce(player_hand, all_groups, size, i, remains, groups) ==
    IF i > Len(all_groups)
    THEN [player_hand |-> player_hand, groups |-> groups]
    ELSE LET group == all_groups[i] IN
         IF CounterEq(CounterAnd(player_hand, group), group)
         THEN LET rest == CounterSub(player_hand, group) IN
              IF remains - size < size
              THEN [player_hand |-> rest, groups |-> Append(groups, group)]
              ELSE RemoveLoopOnce(rest, all_groups, size, i + 1, remains - size,
                                  Append(groups, group))
         ELSE IF remains < size
              THEN [player_hand |-> player_hand, groups |-> groups]
              ELSE RemoveLoopOnce(player_hand, all_groups, size, i + 1, remains, groups)

\* RemoveLoop leaving at the first group removed.
RemoveLoopFirstOnly(player_hand, all_groups, size, i, remains, groups) ==
    LET held == { j \in DOMAIN all_groups :
                    CounterEq(CounterAnd(player_hand, all_groups[j]), all_groups[j]) }
    IN  IF held = {} THEN [player_hand |-> player_hand, groups |-> groups]
        ELSE LET first == CHOOSE j \in held : \A n \in held : j <= n
             IN  [player_hand |-> CounterSub(player_hand, all_groups[first]),
                  groups |-> Append(groups, all_groups[first])]

\* RemoveLoop leaving the tiles of a removed group in the hand: remains is
\* lowered, player_hand is not.
RECURSIVE RemoveLoopKeeping(_, _, _, _, _, _)
RemoveLoopKeeping(player_hand, all_groups, size, i, remains, groups) ==
    IF i > Len(all_groups)
    THEN [player_hand |-> player_hand, groups |-> groups]
    ELSE LET group == all_groups[i] IN
         IF CounterEq(CounterAnd(player_hand, group), group)
         THEN IF remains - size < size
              THEN [player_hand |-> player_hand, groups |-> Append(groups, group)]
              ELSE RemoveLoopKeeping(player_hand, all_groups, size, i, remains - size,
                                     Append(groups, group))
         ELSE IF remains < size
              THEN [player_hand |-> player_hand, groups |-> groups]
              ELSE RemoveLoopKeeping(player_hand, all_groups, size, i + 1, remains,
                                     groups)

\* The loops of remove_melds and remove_pairs: group i of all_groups is
\* removed while the hand contains it; size is 3 for melds and 2 for pairs.
\* player_hand -= group changes the caller's Counter in place, so the residue
\* is returned with the groups removed.
RECURSIVE RemoveLoop(_, _, _, _, _, _)
RemoveLoop(player_hand, all_groups, size, i, remains, groups) ==
    IF i > Len(all_groups)
    THEN [player_hand |-> player_hand, groups |-> groups]
    ELSE LET group == all_groups[i] IN
         IF CounterEq(CounterAnd(player_hand, group), group)
         THEN LET rest == CounterSub(player_hand, group) IN
              IF remains - size < size
              THEN [player_hand |-> rest, groups |-> Append(groups, group)]
              ELSE RemoveLoop(rest, all_groups, size, i, remains - size,
                              Append(groups, group))
         ELSE IF remains < size
              THEN [player_hand |-> player_hand, groups |-> groups]
              ELSE RemoveLoop(player_hand, all_groups, size, i + 1, remains, groups)

remove_melds(player_hand, all_melds) ==
    RemoveLoop(player_hand, all_melds, 3, 1, CounterTotal(player_hand), <<>>)

remove_pairs(player_hand, all_pairs) ==
    RemoveLoop(player_hand, all_pairs, 2, 1, CounterTotal(player_hand), <<>>)

-----------------------------------------------------------------------------
(* shanten.py: the evaluators.  A call returns [raised, value, player_hand]: *)
(* the exception raised ("" for none), the value returned and the caller's   *)
(* Counter as the call leaves it.                                            *)

\* Returned, were the honors stripped from the caller's Counter itself
ReturnedStripped(v, h) ==
    [raised |-> "", value |-> v,
     player_hand |-> CounterSub(h, CounterAnd(h, FILTER_HONORS))]

Returned(v, h) == [raised |-> "", value |-> v, player_hand |-> h]
Raised(e, h) == [raised |-> e, value |-> 0, player_hand |-> h]

\* StripSuit with the pairs taken from the suit part as it was before the
\* melds were removed (remove_melds working on a copy).
StripSuitFresh(suit_part) ==
    LET melds == remove_melds(suit_part, MELDS_NUMBER)
        pairs == remove_pairs(suit_part, PAIRS_NUMBER)
    IN  [melds |-> melds.groups, pairs |-> pairs.groups]

\* melds and pairs stripped from one converted suit part, pairs from the
\* residue the melds leave
StripSuit(suit_part) ==
    LET melds == remove_melds(suit_part, MELDS_NUMBER)
        pairs == remove_pairs(melds.player_hand, PAIRS_NUMBER)
    IN  [melds |-> melds.groups, pairs |-> pairs.groups]

StripHonors(hand_h) ==
    LET melds == remove_melds(hand_h, MELDS_HONOR)
        pairs == remove_pairs(melds.player_hand, PAIRS_HONOR)
    IN  [melds |-> melds.groups, pairs |-> pairs.groups]

count_shanten_std(player_hand) ==
    LET num_tile == CounterTotal(player_hand) IN
    IF num_tile % 3 # 1 THEN Raised("ValueError", player_hand)
    ELSE IF num_tile = 1 THEN Returned(0, player_hand)
    ELSE
    LET part_m == convert_suit_to_number(CounterAnd(player_hand, FILTER_CHARACTERS))
        part_p == convert_suit_to_number(CounterAnd(player_hand, FILTER_CIRCLES))
        part_s == convert_suit_to_number(CounterAnd(player_hand, FILTER_BAMBOOS))
    IN
    IF part_m.raised # "" \/ part_p.raised # "" \/ part_s.raised # ""
    THEN Raised("ValueError", player_hand)
    ELSE
    LET m == StripSuit(part_m.counter)
        p == StripSuit(part_p.counter)
        s == StripSuit(part_s.counter)
        h == StripHonors(CounterAnd(player_hand, FILTER_HONORS))
        num_melds == Len(m.melds) + Len(p.melds) + Len(s.melds) + Len(h.melds)
        num_pairs == Len(m.pairs) + Len(p.pairs) + Len(s.pairs) + Len(h.pairs)
    IN  Returned(((num_tile - 1) \div 3) * 2 - num_melds * 2 - Min(4, num_pairs),
                 player_hand)

\* count_shanten_13_orphans taking any tile beyond one of each orphan for the
\* duplicate.
count_shanten_13_orphans_any_extra(player_hand) ==
    IF CounterTotal(player_hand) \notin {13, 14}
    THEN Raised("ValueError", player_hand)
    ELSE LET orphans == CounterAnd(player_hand, THIRTEEN_ORPHANS)
             num_orphans == Cardinality(Keys(orphans))
         IN  IF Keys(CounterSub(player_hand, orphans)) # {}
             THEN Returned(12 - num_orphans, player_hand)
             ELSE Returned(13 - num_orphans, player_hand)

count_shanten_13_orphans(player_hand) ==
    IF CounterTotal(player_hand) \notin {13, 14}
    THEN Raised("ValueError", player_hand)
    ELSE LET orphans == CounterAnd(player_hand, THIRTEEN_ORPHANS)
             num_orphans == Cardinality(Keys(orphans))
         IN  IF Keys(CounterAnd(CounterSub(player_hand, orphans), orphans)) # {}
             THEN Returned(12 - num_orphans, player_hand)
             ELSE Returned(13 - num_orphans, player_hand)

\* count_shanten_seven_pairs counting every two tiles of a kind.
count_shanten_seven_pairs_by_twos(player_hand) ==
    IF CounterTotal(player_hand) \notin {13, 14}
    THEN Raised("ValueError", player_hand)
    ELSE LET twos == [k \in DOMAIN player_hand |-> player_hand[k] \div 2]
         IN  Returned(6 - CounterTotal(twos), player_hand)

\* count_shanten_seven_pairs without the check of the size.
count_shanten_seven_pairs_any_size(player_hand) ==
    LET npair == Cardinality({k \in DOMAIN player_hand : player_hand[k] >= 2})
    IN  Returned(6 - npair, player_hand)

count_shanten_seven_pairs(player_hand) ==
    IF CounterTotal(player_hand) \notin {13, 14}
    THEN Raised("ValueError", player_hand)
    ELSE LET npair == Cardinality({k \in DOMAIN player_hand : player_hand[k] >= 2})
         IN  Returned(6 - npair, player_hand)

count_shanten_naive(player_hand) ==
    LET std == count_shanten_std(player_hand)
        seven == count_shanten_seven_pairs(player_hand)
        orphans == count_shanten_13_orphans(player_hand)
    IN  IF std.raised # "" THEN std
        ELSE IF seven.raised # "" THEN seven
        ELSE IF orphans.raised # "" THEN orphans
        ELSE Returned(Min(std.value, Min(seven.value, orphans.value)), player_hand)

-----------------------------------------------------------------------------
(* The hands the evaluators are called on *)

\* Counter(seq) for a sequence of tiles
CounterOf(seq) ==
    [k \in TILE_RANGE |-> Cardinality({i \in DOMAIN seq : seq[i] = k})]

\* tiles.tiles('<n>m'), '<n>s', '<n>p'
Characters(n) == TILE_ONE_OF_CHARACTERS + n - 1
Bamboos(n) == TILE_ONE_OF_BAMBOOS + n - 1
Circles(n) == TILE_ONE_OF_CIRCLES + n - 1

\* The tile kinds of the exhaustive part of the input: a run of one suit that
\* ends at its nine, the one of the suit whose identifiers follow, and an
\* honor.
KINDS ==
    { Bamboos(6), Bamboos(7), Bamboos(8), Bamboos(9), Circles(1), TILE_EAST_WIND }

MaxTiles == 14

\* every Counter over KINDS with at most MaxCopies tiles of a kind and at most
\* MaxTiles tiles
NARROW_HANDS ==
    { [k \in TILE_RANGE |-> IF k \in KINDS THEN f[k] ELSE 0] :
        f \in { g \in [KINDS -> 0 .. MaxCopies] : SumOver(g, KINDS) <= MaxTiles } }

\* the honors as tiles.tiles() reads them
East == TILE_EAST_WIND
South == TILE_EAST_WIND + 1
West == TILE_EAST_WIND + 2
North == TILE_EAST_WIND + 3
Red == TILE_EAST_WIND + 4
Green == TILE_EAST_WIND + 5
White == TILE_EAST_WIND + 6

\* Hands of the doctests of shanten.py, and two hands with no orphan and with
\* no two tiles that go together.
EXAMPLE_HANDS ==
    { \* 3899m3457p88s南白発
      CounterOf(<<Characters(3), Characters(8), Characters(9), Characters(9),
                  Circles(3), Circles(4), Circles(5), Circles(7),
                  Bamboos(8), Bamboos(8), South, White, Green>>),
      \* 112233m258p39s西中
      CounterOf(<<Characters(1), Characters(1), Characters(2), Characters(2),
                  Characters(3), Characters(3), Circles(2), Circles(5), Circles(8),
                  Bamboos(3), Bamboos(9), West, Red>>),
      \* 1289m1289p1289s北
      CounterOf(<<Characters(1), Characters(2), Characters(8), Characters(9),
                  Circles(1), Circles(2), Circles(8), Circles(9),
                  Bamboos(1), Bamboos(2), Bamboos(8), Bamboos(9), North>>),
      \* 5566m3477p56s
      CounterOf(<<Characters(5), Characters(5), Characters(6), Characters(6),
                  Circles(3), Circles(4), Circles(7), Circles(7),
                  Bamboos(5), Bamboos(6)>>),
      \* 139m19p19s東南西北白発中
      CounterOf(<<Characters(1), Characters(3), Characters(9), Circles(1), Circles(9),
                  Bamboos(1), Bamboos(9), East, South, West, North,
                  White, Green, Red>> ),
      \* 19m19p19s東南南西北白発中
      CounterOf(<<Characters(1), Characters(9), Circles(1), Circles(9),
                  Bamboos(1), Bamboos(9), East, South, South, West, North,
                  White, Green, Red>>),
      \* 119m19p19s東南西北発中
      CounterOf(<<Characters(1), Characters(1), Characters(9), Circles(1), Circles(9),
                  Bamboos(1), Bamboos(9), East, South, West, North, Green, Red>>),
      \* 東東南南西西北北白白発発中中
      CounterOf(<<East, East, South, South, West, West, North, North,
                  White, White, Green, Green, Red, Red>>),
      \* 2345678m234567s
      CounterOf(<<Characters(2), Characters(3), Characters(4), Characters(5),
                  Characters(6), Characters(7), Characters(8), Bamboos(2),
                  Bamboos(3), Bamboos(4), Bamboos(5), Bamboos(6), Bamboos(7)>>),
      \* 147m147p147s東南西北
      CounterOf(<<Characters(1), Characters(4), Characters(7), Circles(1), Circles(4),
                  Circles(7), Bamboos(1), Bamboos(4), Bamboos(7),
                  East, South, West, North>>) }

HANDS == NARROW_HANDS \cup EXAMPLE_HANDS

-----------------------------------------------------------------------------
(* melds.py: the melds of the exposed part.  tileinfo is the sequence of  *)
(* one tile for a Pung or a Kong and of three tiles for a Chow, so that a  *)
(* Chow's tileinfo equals no tile.                                          *)

Meld(class, tileinfo, is_concealed, discarded_by) ==
    [class |-> class, tileinfo |-> tileinfo, concealed |-> is_concealed,
     discarded_by |-> discarded_by]

Chow(tileinfo, is_concealed) == Meld("Chow", tileinfo, is_concealed, "LEFT")
Pung(tile, is_concealed, discarded_by) == Meld("Pung", <<tile>>, is_concealed, discarded_by)
Kong(tile, is_concealed, discarded_by) == Meld("Kong", <<tile>>, is_concealed, discarded_by)

\* isinstance(meld, Pung): Kong is a subclass of Pung
IsInstancePung(meld) == meld.class \in {"Pung", "Kong"}

-----------------------------------------------------------------------------
(* playerhand.py: PlayerHand *)

\* None, and a value that is not None
None == [none |-> TRUE, value |-> 0]
Some(v) == [none |-> FALSE, value |-> v]

\* the state of the objects no step of a specification works on
NoOther ==
    /\ phase = [prevalent_wind |-> 0, hand |-> 1, counter |-> 0]
    /\ twin = [concealed |-> EmptyCounter(TILE_RANGE), exposed |-> <<>>,
               source |-> "tuple", given_exposed |-> <<>>]

\* the state a PlayerHand with nothing in it stands for while the evaluators
\* are called alone
NoHand ==
    /\ concealed = EmptyCounter(TILE_RANGE)
    /\ exposed = <<>>
    /\ claimable_chow = {}
    /\ claimable_pung = {}
    /\ claimable_kong = {}
    /\ shanten_std = None
    /\ shanten_7 = None
    /\ shanten_13 = None
    /\ last = ""
    /\ raised = ""
    /\ args = <<>>
    /\ claimed = TRUE

\* PlayerHand.is_concealed
is_concealed == CounterTotal(concealed) = 13

\* PlayerHand.shanten: the value, or the TypeError of min() over a None
shanten ==
    IF ~is_concealed THEN [raised |-> "", result |-> shanten_std]
    ELSE IF shanten_std.none \/ shanten_7.none \/ shanten_13.none
         THEN [raised |-> "TypeError", result |-> None]
         ELSE [raised |-> "",
               result |-> Some(Min(shanten_std.value,
                                   Min(shanten_7.value, shanten_13.value)))]

\* _find_mate_pairs(suits, part): the tiles of suits with a mate pair in part
_find_mate_pairs(suits, part) ==
    { tile \in suits :
        \E mate \in { <<tile - 2, tile - 1>>, <<tile - 1, tile + 1>>,
                      <<tile + 1, tile + 2>> } :
            mate[1] \in Keys(part) /\ mate[2] \in Keys(part) }

\* update_claimable_tiles_chow, were the concealed part not cut by suit
ChowTilesOfWholeHand(counter) == _find_mate_pairs(TILE_RANGE_SUITS, counter)

\* what update_claimable_tiles_chow assigns to claimable_chow
ChowTiles(counter) ==
    _find_mate_pairs(TILE_RANGE_CHARACTERS, CounterAnd(counter, FILTER_CHARACTERS))
    \cup _find_mate_pairs(TILE_RANGE_CIRCLES, CounterAnd(counter, FILTER_CIRCLES))
    \cup _find_mate_pairs(TILE_RANGE_BAMBOOS, CounterAnd(counter, FILTER_BAMBOOS))

\* update_claimable_tiles_pung, were a pair not enough
PungTilesOfThree(counter) == { tile \in DOMAIN counter : counter[tile] >= 3 }

\* what update_claimable_tiles_pung assigns to claimable_pung
PungTiles(counter) == { tile \in DOMAIN counter : counter[tile] >= 2 }

\* what update_claimable_tiles_kong assigns to claimable_kong: the result of
\* claimable_kong.union(...) over the exposed part is not assigned
KongTiles(counter, exposed_parts) ==
    LET claimable == { tile \in DOMAIN counter : counter[tile] \in {3, 4} }
        added == claimable \cup
                 { meld.tileinfo[1] :
                     meld \in { exposed_parts[i] : i \in
                         { j \in DOMAIN exposed_parts : IsInstancePung(exposed_parts[j]) } } }
    IN  claimable

\* what update_shanten assigns, or the exception of count_shanten_std
ShantenValues(counter) ==
    LET std == CHOOSE r \in { count_shanten_std(counter) } : TRUE IN
    IF std.raised # ""
    THEN [raised |-> std.raised, std |-> None, seven |-> None, orphans |-> None]
    ELSE IF CounterTotal(counter) = 13
         THEN [raised |-> "", std |-> Some(std.value),
               seven |-> Some(count_shanten_seven_pairs(counter).value),
               orphans |-> Some(count_shanten_13_orphans(counter).value)]
         ELSE [raised |-> "", std |-> Some(std.value), seven |-> None, orphans |-> None]

-----------------------------------------------------------------------------
(* Calls of the evaluators *)

InitShanten ==
    /\ hand \in HANDS
    /\ passed = hand
    /\ called = ""
    /\ ret = [raised |-> "", value |-> 0]
    /\ NoHand
    /\ NoOther

Call(name, result) ==
    /\ called = ""
    /\ called' = name
    /\ ret' = [raised |-> result.raised, value |-> result.value]
    /\ hand' = result.player_hand
    /\ UNCHANGED passed
    /\ UNCHANGED <<hand_vars, call_vars, other_vars>>

CallStd == Call("count_shanten_std", count_shanten_std(hand))
CallSevenPairs == Call("count_shanten_seven_pairs", count_shanten_seven_pairs(hand))
CallThirteenOrphans == Call("count_shanten_13_orphans", count_shanten_13_orphans(hand))
CallNaive == Call("count_shanten_naive", count_shanten_naive(hand))

NextShanten == CallStd \/ CallSevenPairs \/ CallThirteenOrphans \/ CallNaive

SpecShanten == InitShanten /\ [][NextShanten]_vars

-----------------------------------------------------------------------------
(* Calls of remove_melds and remove_pairs *)

MaxGroupTiles == 6

\* the Counters of at most n numbers 1..9, no number more than MaxCopies times
RECURSIVE PartsUpTo(_)
PartsUpTo(n) ==
    IF n = 0 THEN { EmptyCounter(NUMBER_RANGE) }
    ELSE LET smaller == PartsUpTo(n - 1) IN
         smaller \cup { [c EXCEPT ![k] = Min(MaxCopies, @ + 1)] :
                            c \in smaller, k \in 1 .. 9 }

\* converted suit parts: the small ones, and 1112345678999
NUMBER_PARTS ==
    PartsUpTo(MaxGroupTiles)
    \cup { [k \in NUMBER_RANGE |-> IF k \in {1, 9} THEN 3 ELSE IF k = 10 THEN 0 ELSE 1] }

\* honor parts of winds
HONOR_PARTS ==
    { [k \in TILE_RANGE |-> IF k \in {East, South, West} THEN f[k] ELSE 0] :
        f \in [{East, South, West} -> 0 .. MaxCopies] }

\* the tables count_shanten_std passes with a part
MeldsFor(part) == IF DOMAIN part = NUMBER_RANGE THEN MELDS_NUMBER ELSE MELDS_HONOR
PairsFor(part) == IF DOMAIN part = NUMBER_RANGE THEN PAIRS_NUMBER ELSE PAIRS_HONOR

InitRemove ==
    /\ hand \in NUMBER_PARTS \cup HONOR_PARTS
    /\ passed = hand
    /\ called = ""
    /\ ret = [raised |-> "", value |-> <<>>]
    /\ NoHand
    /\ NoOther

\* a call of remove_melds or remove_pairs on hand: the groups are returned and
\* hand is left as the residue
CallRemove(name, result) ==
    /\ called' = name
    /\ passed' = hand
    /\ ret' = [raised |-> "", value |-> result.groups]
    /\ hand' = result.player_hand
    /\ UNCHANGED <<hand_vars, call_vars, other_vars>>

CallRemoveMelds ==
    /\ called = ""
    /\ CallRemove("remove_melds", remove_melds(hand, MeldsFor(hand)))

\* on a fresh part, or on the residue remove_melds left
CallRemovePairs ==
    /\ called \in {"", "remove_melds"}
    /\ CallRemove("remove_pairs", remove_pairs(hand, PairsFor(hand)))

NextRemove == CallRemoveMelds \/ CallRemovePairs

SpecRemove == InitRemove /\ [][NextRemove]_vars

-----------------------------------------------------------------------------
(* The PlayerHand objects and the calls of their update methods *)

\* the tile kinds of the concealed parts
HAND_KINDS == { Bamboos(8), Bamboos(9), Circles(1), TILE_EAST_WIND }

SizeSpan == 6

\* every Counter over HAND_KINDS of MaxTiles - SizeSpan to MaxTiles tiles
NARROW_CONCEALED ==
    { [k \in TILE_RANGE |-> IF k \in HAND_KINDS THEN f[k] ELSE 0] :
        f \in { g \in [HAND_KINDS -> 0 .. MaxCopies] :
                  SumOver(g, HAND_KINDS) \in (MaxTiles - SizeSpan) .. MaxTiles } }

\* Hands of the doctests of playerhand.py
EXAMPLE_CONCEALED ==
    { \* 12m東南
      CounterOf(<<Characters(1), Characters(2), East, South>>),
      \* 35p東南
      CounterOf(<<Circles(3), Circles(5), East, South>>),
      \* 258p西
      CounterOf(<<Circles(2), Circles(5), Circles(8), West>>),
      \* 149m66s発発
      CounterOf(<<Characters(1), Characters(4), Characters(9), Bamboos(6),
                  Bamboos(6), Green, Green>>),
      \* 9m66s2p発発発
      CounterOf(<<Characters(9), Bamboos(6), Bamboos(6), Circles(2),
                  Green, Green, Green>>),
      \* 1112345678999s
      CounterOf(<<Bamboos(1), Bamboos(1), Bamboos(1), Bamboos(2), Bamboos(3),
                  Bamboos(4), Bamboos(5), Bamboos(6), Bamboos(7), Bamboos(8),
                  Bamboos(9), Bamboos(9), Bamboos(9)>>),
      \* 12457789m45p346s
      CounterOf(<<Characters(1), Characters(2), Characters(4), Characters(5),
                  Characters(7), Characters(7), Characters(8), Characters(9),
                  Circles(4), Circles(5), Bamboos(3), Bamboos(4), Bamboos(6)>>),
      \* 479m378p568s東東東白
      CounterOf(<<Characters(4), Characters(7), Characters(9), Circles(3),
                  Circles(7), Circles(8), Bamboos(5), Bamboos(6), Bamboos(8),
                  East, East, East, White>>),
      \* 479m378p568s東東東東
      CounterOf(<<Characters(4), Characters(7), Characters(9), Circles(3),
                  Circles(7), Circles(8), Bamboos(5), Bamboos(6), Bamboos(8),
                  East, East, East, East>>),
      \* 479m378p568s白
      CounterOf(<<Characters(4), Characters(7), Characters(9), Circles(3),
                  Circles(7), Circles(8), Bamboos(5), Bamboos(6), Bamboos(8),
                  White>>) }

CONCEALED_PARTS == NARROW_CONCEALED \cup EXAMPLE_CONCEALED

\* nothing exposed; the Pung of the doctest of commit_kong; a Chow and a
\* concealed Kong
EXPOSED_PARTS ==
    { <<>>,
      <<Pung(East, TRUE, "RIGHT")>>,
      <<Chow(<<Bamboos(7), Bamboos(8), Bamboos(9)>>, FALSE),
        Kong(Circles(1), TRUE, "None")>> }

\* the copies of tile that the melds of exposed_parts hold
RECURSIVE CopiesExposed(_, _)
CopiesExposed(exposed_parts, tile) ==
    IF exposed_parts = <<>> THEN 0
    ELSE LET meld == Head(exposed_parts)
             copies == IF meld.class = "Chow"
                       THEN Cardinality({ i \in 1 .. 3 : meld.tileinfo[i] = tile })
                       ELSE IF meld.tileinfo[1] # tile THEN 0
                       ELSE IF meld.class = "Kong" THEN 4 ELSE 3
         IN  copies + CopiesExposed(Tail(exposed_parts), tile)

\* a set has MaxCopies copies of a tile, and a player holds no more than
\* MaxTiles tiles, the fourth tile of a Kong not counted
Dealable(concealed_part, exposed_parts) ==
    /\ \A tile \in TILE_RANGE :
           concealed_part[tile] + CopiesExposed(exposed_parts, tile) <= MaxCopies
    /\ CounterTotal(concealed_part) + 3 * Len(exposed_parts) <= MaxTiles

\* PlayerHand(concealed, exposed, initial_update=False)
InitHand ==
    /\ concealed \in CONCEALED_PARTS
    /\ exposed \in EXPOSED_PARTS
    /\ Dealable(concealed, exposed)
    /\ claimable_chow = {}
    /\ claimable_pung = {}
    /\ claimable_kong = {}
    /\ shanten_std = None
    /\ shanten_7 = None
    /\ shanten_13 = None
    /\ last = "__init__"
    /\ raised = ""
    /\ args = <<>>
    /\ claimed = TRUE
    /\ NoOther
    /\ hand = EmptyCounter(TILE_RANGE)
    /\ passed = hand
    /\ called = ""
    /\ ret = [raised |-> "", value |-> 0]

update_claimable_tiles_chow ==
    /\ claimable_chow' = ChowTiles(concealed)
    /\ last' = "update_claimable_tiles_chow"
    /\ raised' = ""
    /\ UNCHANGED <<concealed, exposed, claimable_pung, claimable_kong,
                   shanten_std, shanten_7, shanten_13, evaluator_vars, call_vars, other_vars>>

update_claimable_tiles_pung ==
    /\ claimable_pung' = PungTiles(concealed)
    /\ last' = "update_claimable_tiles_pung"
    /\ raised' = ""
    /\ UNCHANGED <<concealed, exposed, claimable_chow, claimable_kong,
                   shanten_std, shanten_7, shanten_13, evaluator_vars, call_vars, other_vars>>

update_claimable_tiles_kong ==
    /\ claimable_kong' = KongTiles(concealed, exposed)
    /\ last' = "update_claimable_tiles_kong"
    /\ raised' = ""
    /\ UNCHANGED <<concealed, exposed, claimable_chow, claimable_pung,
                   shanten_std, shanten_7, shanten_13, evaluator_vars, call_vars, other_vars>>

update_claimable_tiles ==
    /\ claimable_chow' = ChowTiles(concealed)
    /\ claimable_pung' = PungTiles(concealed)
    /\ claimable_kong' = KongTiles(concealed, exposed)
    /\ last' = "update_claimable_tiles"
    /\ raised' = ""
    /\ UNCHANGED <<concealed, exposed, shanten_std, shanten_7, shanten_13,
                   evaluator_vars, call_vars, other_vars>>

\* the assignments of update_shanten; none is made when count_shanten_std raises
AssignShanten(values) ==
    IF values.raised # ""
    THEN UNCHANGED <<shanten_std, shanten_7, shanten_13>>
    ELSE /\ shanten_std' = values.std
         /\ shanten_7' = values.seven
         /\ shanten_13' = values.orphans

update_shanten ==
    \E values \in { ShantenValues(concealed) } :
    /\ AssignShanten(values)
    /\ last' = "update_shanten"
    /\ raised' = values.raised
    /\ UNCHANGED <<concealed, exposed, claimable_chow, claimable_pung,
                   claimable_kong, evaluator_vars, call_vars, other_vars>>

update ==
    \E values \in { ShantenValues(concealed) } :
    /\ claimable_chow' = ChowTiles(concealed)
    /\ claimable_pung' = PungTiles(concealed)
    /\ claimable_kong' = KongTiles(concealed, exposed)
    /\ AssignShanten(values)
    /\ last' = "update"
    /\ raised' = values.raised
    /\ UNCHANGED <<concealed, exposed, evaluator_vars, call_vars, other_vars>>

NextHand ==
    \/ update
    \/ update_claimable_tiles
    \/ update_claimable_tiles_chow
    \/ update_claimable_tiles_pung
    \/ update_claimable_tiles_kong
    \/ update_shanten

SpecHand == InitHand /\ [][NextHand]_vars

-----------------------------------------------------------------------------
(* The commits of a PlayerHand built with initial_update=True *)

MaxMelds == 2

\* the tiles claimed for a Chow and for a Pung or a Kong, and the player
\* they are claimed from
CHOW_TILES == { Bamboos(7) }
PUNG_TILES == { Bamboos(8), East }
DISCARDED_BY == { "CENTER" }

\* _get_mate_pair(tile)
MatePairs(tile) ==
    { <<tile - 2, tile - 1>>, <<tile - 1, tile + 1>>, <<tile + 1, tile + 2>> }

\* Subtract with the counts kept positive, as the operator - of Counter keeps
\* them
SubtractPositive(counter, taken) ==
    [k \in DOMAIN counter |->
        Max(0, counter[k] - (IF k \in DOMAIN taken THEN taken[k] ELSE 0))]

\* Counter.subtract of the tiles of a list or of a mapping: counts may become
\* zero or negative, and a tile that was no key becomes one
Subtract(counter, taken) ==
    [k \in DOMAIN counter |-> counter[k] - (IF k \in DOMAIN taken THEN taken[k] ELSE 0)]

\* Pung.extend_to_kong
extend_to_kong(meld) == Kong(meld.tileinfo[1], FALSE, meld.discarded_by)

\* the exposed part after the first meld of tile is extended to a Kong
ExtendFirst(exposed_parts, tile) ==
    LET found == { i \in DOMAIN exposed_parts : exposed_parts[i].tileinfo = <<tile>> } IN
    IF found = {} THEN exposed_parts
    ELSE LET first == CHOOSE i \in found : \A j \in found : i <= j
         IN  [exposed_parts EXCEPT ![first] = extend_to_kong(exposed_parts[first])]

\* PlayerHand(concealed, exposed) of a player who holds 13 tiles: update() has
\* run and has not raised
InitCommit ==
    /\ concealed \in CONCEALED_PARTS
    /\ exposed \in EXPOSED_PARTS
    /\ Dealable(concealed, exposed)
    /\ CounterTotal(concealed) + 3 * Len(exposed) = 13
    /\ claimable_chow = ChowTiles(concealed)
    /\ claimable_pung = PungTiles(concealed)
    /\ claimable_kong = KongTiles(concealed, exposed)
    /\ \E values \in { ShantenValues(concealed) } :
           /\ shanten_std = values.std
           /\ shanten_7 = values.seven
           /\ shanten_13 = values.orphans
    /\ last = "__init__"
    /\ raised = ""
    /\ args = <<>>
    /\ claimed = TRUE
    /\ NoOther
    /\ hand = EmptyCounter(TILE_RANGE)
    /\ passed = hand
    /\ called = ""
    /\ ret = [raised |-> "", value |-> 0]

\* __init__ keeps a Counter it is given as it is (self._concealed = concealed)
\* and keeps a non-empty exposed list as it is (self._exposed = exposed or []):
\* the object, the caller and any other PlayerHand built from them then hold
\* one Counter and one list. A str or a tuple is copied into a new Counter, and
\* an empty list is replaced by a new one
SharesConcealed == twin.source = "Counter"
SharesExposed == twin.given_exposed # <<>>

\* the Counter and the list a commit has written to, seen through every
\* reference to them
Aliased ==
    /\ hand' = IF SharesConcealed THEN concealed' ELSE hand
    /\ twin' = [twin EXCEPT
                   !.concealed = IF SharesConcealed THEN concealed' ELSE @,
                   !.exposed = IF SharesExposed THEN exposed' ELSE @,
                   !.given_exposed = IF SharesExposed THEN exposed' ELSE @]

\* what no commit touches: update() is not called
CommitFrame ==
    /\ UNCHANGED <<claimable_chow, claimable_pung, claimable_kong,
                   shanten_std, shanten_7, shanten_13, passed, called, ret, phase>>
    /\ Aliased

commit_chow(new_tile, tile1, tile2) ==
    /\ Len(exposed) < MaxMelds
    /\ exposed' = Append(exposed, Chow(<<new_tile, tile1, tile2>>, FALSE))
    /\ concealed' = Subtract(concealed, CounterOf(<<tile1, tile2>>))
    /\ last' = "commit_chow"
    /\ raised' = ""
    /\ args' = <<new_tile, tile1, tile2>>
    /\ claimed' = (claimed /\ new_tile \in claimable_chow)
    /\ CommitFrame

commit_pung(tile, discarded_by) ==
    /\ Len(exposed) < MaxMelds
    /\ exposed' = Append(exposed, Pung(tile, FALSE, discarded_by))
    /\ concealed' = Subtract(concealed, [k \in {tile} |-> 2])
    /\ last' = "commit_pung"
    /\ raised' = ""
    /\ args' = <<tile, discarded_by>>
    /\ claimed' = (claimed /\ tile \in claimable_pung)
    /\ CommitFrame

commit_kong(tile, discarded_by) ==
    /\ Len(exposed) < MaxMelds
    /\ IF discarded_by # "None"
       THEN /\ exposed' = Append(exposed, Kong(tile, FALSE, discarded_by))
            /\ concealed' = Subtract(concealed, [k \in {tile} |-> 3])
       ELSE IF concealed[tile] = 4
       THEN /\ exposed' = Append(exposed, Kong(tile, TRUE, "None"))
            /\ concealed' = Subtract(concealed, [k \in {tile} |-> 4])
       ELSE /\ exposed' = ExtendFirst(exposed, tile)
            /\ UNCHANGED concealed
    /\ last' = "commit_kong"
    /\ raised' = ""
    /\ args' = <<tile, discarded_by>>
    /\ claimed' = (claimed /\ tile \in claimable_kong)
    /\ CommitFrame

CommitChow ==
    \E new_tile \in CHOW_TILES :
        \E mate \in MatePairs(new_tile) :
            /\ mate[1] \in TILE_RANGE
            /\ mate[2] \in TILE_RANGE
            /\ commit_chow(new_tile, mate[1], mate[2])

CommitPung ==
    \E tile \in PUNG_TILES : \E discarded_by \in DISCARDED_BY :
        commit_pung(tile, discarded_by)

CommitKong ==
    \E tile \in PUNG_TILES : \E discarded_by \in DISCARDED_BY \cup {"None"} :
        commit_kong(tile, discarded_by)

NextCommit ==
    \/ CommitChow
    \/ CommitPung
    \/ CommitKong
    \/ update_claimable_tiles

SpecCommit == InitCommit /\ [][NextCommit]_vars

\* the types of the collection a caller passes to PlayerHand
SOURCES == {"str", "tuple", "Counter"}

\* a = PlayerHand(collection, given) and twin = PlayerHand(collection, given)
\* of a player who holds 13 tiles; hand is the caller's collection as a
\* multiset and twin.given_exposed the caller's list
InitTwin ==
    /\ concealed \in CONCEALED_PARTS
    /\ exposed \in EXPOSED_PARTS
    /\ Dealable(concealed, exposed)
    /\ CounterTotal(concealed) + 3 * Len(exposed) = 13
    /\ claimable_chow = ChowTiles(concealed)
    /\ claimable_pung = PungTiles(concealed)
    /\ claimable_kong = KongTiles(concealed, exposed)
    /\ \E values \in { ShantenValues(concealed) } :
           /\ shanten_std = values.std
           /\ shanten_7 = values.seven
           /\ shanten_13 = values.orphans
    /\ last = "__init__"
    /\ raised = ""
    /\ args = <<>>
    /\ claimed = TRUE
    /\ phase = [prevalent_wind |-> 0, hand |-> 1, counter |-> 0]
    /\ \E source \in SOURCES :
           twin = [concealed |-> concealed, exposed |-> exposed,
                   source |-> source, given_exposed |-> exposed]
    /\ hand = concealed
    /\ passed = EmptyCounter(TILE_RANGE)
    /\ called = ""
    /\ ret = [raised |-> "", value |-> 0]

NextTwin ==
    \/ CommitChow
    \/ CommitPung
    \/ CommitKong

SpecTwin == InitTwin /\ [][NextTwin]_vars

-----------------------------------------------------------------------------
(* winds.py and phase.py: Phase *)

\* Winds: EAST = 0, SOUTH = 1, WEST = 2, NORTH = 3
WINDS == 0 .. 3

get_left_wind(wind) == (wind - 1) % 4
\* the wind two seats away, where the right one is expected
WindAcross(wind) == (wind + 2) % 4

get_right_wind(wind) == (wind + 1) % 4

MaxCounter == 7

\* Phase(wind, hand, counter): the assertion 1 <= hand <= 4 has passed
InitPhase ==
    /\ phase \in [prevalent_wind : WINDS, hand : 1 .. 4, counter : 0 .. MaxCounter]
    /\ hand = EmptyCounter(TILE_RANGE)
    /\ passed = hand
    /\ called = ""
    /\ ret = [raised |-> "", value |-> 0]
    /\ NoHand
    /\ twin = [concealed |-> EmptyCounter(TILE_RANGE), exposed |-> <<>>,
               source |-> "tuple", given_exposed |-> <<>>]

\* Phase.proceed(update_dealer, increment_counter)
proceed(update_dealer, increment_counter) ==
    /\ increment_counter => phase.counter < MaxCounter
    /\ phase' =
         [prevalent_wind |->
              IF update_dealer /\ phase.hand = 4
              THEN get_right_wind(phase.prevalent_wind)
              ELSE phase.prevalent_wind,
          hand |->
              IF ~update_dealer THEN phase.hand
              ELSE IF phase.hand # 4 THEN phase.hand + 1
              ELSE 1,
          counter |-> IF increment_counter THEN phase.counter + 1 ELSE 0]
    /\ last' = "proceed"
    /\ args' = <<update_dealer, increment_counter>>
    /\ UNCHANGED <<concealed, exposed, claimable_chow, claimable_pung,
                   claimable_kong, shanten_std, shanten_7, shanten_13, raised,
                   claimed, evaluator_vars, twin>>

Proceed ==
    \E update_dealer \in BOOLEAN : \E increment_counter \in BOOLEAN :
        proceed(update_dealer, increment_counter)

NextPhase == Proceed

SpecPhase == InitPhase /\ [][NextPhase]_vars

-----------------------------------------------------------------------------
(* scoring.py: compute_minipoints *)

compute_minipoints(self_draw_bonus, eyes_bonus, waiting_bonus, concealed_melds, exposed_melds) ==
    IF concealed_melds = <<>> /\ exposed_melds = <<>>
    THEN 25
    ELSE (IF exposed_melds = <<>> THEN 30 ELSE 20)
         + (IF self_draw_bonus THEN 2 ELSE 0)
         + (IF eyes_bonus THEN 23457 ELSE 0)
         + (IF waiting_bonus THEN 2 ELSE 0)

\* the melds of a winning hand
WINNING_MELDS ==
    { Chow(<<Bamboos(7), Bamboos(8), Bamboos(9)>>, TRUE), Pung(East, TRUE, "None"),
      Pung(East, FALSE, "RIGHT"), Kong(Circles(1), FALSE, "CENTER") }

MaxWinningMelds == 2

\* the lists of at most MaxWinningMelds melds
MELD_LISTS ==
    UNION { [1 .. n -> WINNING_MELDS] : n \in 0 .. MaxWinningMelds }

\* the arguments of a call of compute_minipoints
InitScoring ==
    /\ args \in BOOLEAN \X BOOLEAN \X BOOLEAN \X MELD_LISTS \X MELD_LISTS
    /\ hand = EmptyCounter(TILE_RANGE)
    /\ passed = hand
    /\ called = ""
    /\ ret = [raised |-> "", value |-> 0]
    /\ concealed = EmptyCounter(TILE_RANGE)
    /\ exposed = <<>>
    /\ claimable_chow = {}
    /\ claimable_pung = {}
    /\ claimable_kong = {}
    /\ shanten_std = None
    /\ shanten_7 = None
    /\ shanten_13 = None
    /\ last = ""
    /\ raised = ""
    /\ claimed = TRUE
    /\ NoOther

CallComputeMinipoints ==
    /\ called = ""
    /\ called' = "compute_minipoints"
    /\ ret' = [raised |-> "",
               value |-> compute_minipoints(args[1], args[2], args[3], args[4], args[5])]
    /\ UNCHANGED <<hand, passed, hand_vars, call_vars, other_vars>>

NextScoring == CallComputeMinipoints

SpecScoring == InitScoring /\ [][NextScoring]_vars

-----------------------------------------------------------------------------
(* tiles.py: tiles(pattern).  A pattern is a sequence of characters; the   *)
(* characters of the honors are written by their names ("East" for the     *)
(* character of the East wind, ... "Red" for the character of the red      *)
(* dragon).                                                                 *)

DIGITS == {"1", "2", "3", "4", "5", "6", "7", "8", "9"}

\* int(i) for a character i of [1-9]
DigitOf ==
    ("1" :> 1 @@ "2" :> 2 @@ "3" :> 3 @@ "4" :> 4 @@ "5" :> 5 @@
     "6" :> 6 @@ "7" :> 7 @@ "8" :> 8 @@ "9" :> 9)

_suit_baseid_table ==
    ("m" :> TILE_ONE_OF_CHARACTERS @@ "p" :> TILE_ONE_OF_CIRCLES @@
     "s" :> TILE_ONE_OF_BAMBOOS)

_honor_table ==
    ("East" :> TILE_EAST_WIND @@ "South" :> TILE_EAST_WIND + 1 @@
     "West" :> TILE_EAST_WIND + 2 @@ "North" :> TILE_EAST_WIND + 3 @@
     "White" :> TILE_EAST_WIND + 6 @@ "Green" :> TILE_EAST_WIND + 5 @@
     "Red" :> TILE_EAST_WIND + 4)

\* the first position from i on whose character is not in class
RECURSIVE RunEnd(_, _, _)
RunEnd(pattern, i, class) ==
    IF i <= Len(pattern) /\ pattern[i] \in class
    THEN RunEnd(pattern, i + 1, class)
    ELSE i

\* re.findall(r'([1-9]+[mps])|([honors]+)', pattern) from position i on, and
\* the tiles the loop of tiles() extends result by for each match; a
\* character no match starts at is skipped
RECURSIVE FindAll(_, _, _)
FindAll(pattern, i, result) ==
    IF i > Len(pattern) THEN result
    ELSE LET d == RunEnd(pattern, i, DIGITS)
             h == RunEnd(pattern, i, DOMAIN _honor_table)
         IN  IF d > i /\ d <= Len(pattern) /\ pattern[d] \in DOMAIN _suit_baseid_table
             THEN FindAll(pattern, d + 1,
                          result \o [j \in 1 .. (d - i) |->
                              _suit_baseid_table[pattern[d]] + DigitOf[pattern[i + j - 1]] - 1])
             ELSE IF h > i
                  THEN FindAll(pattern, h,
                               result \o [j \in 1 .. (h - i) |-> _honor_table[pattern[i + j - 1]]])
                  ELSE FindAll(pattern, i + 1, result)

\* tiles(pattern): the tuple of the tiles, and whether the one tile of a
\* result of length 1 is returned in place of a tuple
tiles(pattern) ==
    LET result == FindAll(pattern, 1, <<>>)
    IN  [scalar |-> Len(result) = 1, result |-> result]

-----------------------------------------------------------------------------
(* tiles.py: format_tiles(iterable), the string of a collection of tiles   *)

\* _init_sortkey_map: characters, circles, bamboos, winds, then the dragons
\* reversed (white, green, red); SORTKEY_MAP[KeyOrder[key]] = key
KeyOrder ==
    [key \in 1 .. 34 |->
        IF key <= 9 THEN TILE_ONE_OF_CHARACTERS + key - 1
        ELSE IF key <= 18 THEN TILE_ONE_OF_CIRCLES + key - 10
        ELSE IF key <= 27 THEN TILE_ONE_OF_BAMBOOS + key - 19
        ELSE IF key <= 31 THEN TILE_EAST_WIND + key - 28
        ELSE TILE_EAST_WIND + 6 - (key - 32)]

SORTKEY_MAP == [t \in TILE_RANGE |-> CHOOSE key \in 1 .. 34 : KeyOrder[key] = t]

\* str(i) for i in 1 .. 9
DigitChar == [i \in 1 .. 9 |-> CHOOSE c \in DIGITS : DigitOf[c] = i]

\* TRANS_TABLE: the characters a code point is translated to; 0x1F007 .. 0x1F00F
\* get an m, 0x1F010 .. 0x1F018 a p and 0x1F019 .. 0x1F021 an s
TRANS_TABLE ==
    [t \in TILE_RANGE |->
        IF t = TILE_EAST_WIND THEN <<"East">>
        ELSE IF t = TILE_EAST_WIND + 1 THEN <<"South">>
        ELSE IF t = TILE_EAST_WIND + 2 THEN <<"West">>
        ELSE IF t = TILE_EAST_WIND + 3 THEN <<"North">>
        ELSE IF t = TILE_EAST_WIND + 4 THEN <<"Red">>
        ELSE IF t = TILE_EAST_WIND + 5 THEN <<"Green">>
        ELSE IF t = TILE_EAST_WIND + 6 THEN <<"White">>
        ELSE IF t <= TILE_EAST_WIND + 15 THEN <<DigitChar[t - (TILE_EAST_WIND + 7) + 1], "m">>
        ELSE IF t <= TILE_EAST_WIND + 24 THEN <<DigitChar[t - (TILE_EAST_WIND + 16) + 1], "p">>
        ELSE <<DigitChar[t - (TILE_EAST_WIND + 25) + 1], "s">>]

\* sorted(iterable, key=lambda t: SORTKEY_MAP[t]) from sort key on: the keys
\* are distinct, so the result is the tiles of the lowest key, then the next
RECURSIVE SortedFrom(_, _)
SortedFrom(iterable, key) ==
    IF key > 34 THEN <<>>
    ELSE SelectSeq(iterable, LAMBDA t : SORTKEY_MAP[t] = key) \o SortedFrom(iterable, key + 1)

\* ''.join(chr(c) for c in sorted_tiles).translate(TRANS_TABLE)
RECURSIVE Translate(_)
Translate(sorted_tiles) ==
    IF sorted_tiles = <<>> THEN <<>>
    ELSE TRANS_TABLE[Head(sorted_tiles)] \o Translate(Tail(sorted_tiles))

format_tiles(iterable) == Translate(SortedFrom(iterable, 1))

\* the copies of a tile kind in the collections that are formatted
MaxFormatCopies == 2

\* Counter.elements(): each tile as many times as its count
RECURSIVE ElementsFrom(_, _)
ElementsFrom(counter, t) ==
    IF t \notin DOMAIN counter THEN <<>>
    ELSE [i \in 1 .. Max(0, counter[t]) |-> t] \o ElementsFrom(counter, t + 1)

Elements(counter) == ElementsFrom(counter, TILE_EAST_WIND)

\* the kinds of the larger collections: two of each suit, a wind, two dragons
FORMAT_KINDS ==
    {Characters(1), Characters(9), Circles(2), Bamboos(5),
     TILE_EAST_WIND + 1, TILE_EAST_WIND + 4, TILE_EAST_WIND + 6}

\* the multisets of at least two tiles: every two tiles of the 34 kinds, and
\* up to MaxFormatCopies of each of FORMAT_KINDS
FORMAT_HANDS ==
    { CounterOf(<<a, b>>) : a \in TILE_RANGE, b \in TILE_RANGE } \cup
    { h \in { [k \in TILE_RANGE |-> IF k \in FORMAT_KINDS THEN part[k] ELSE 0] :
                part \in [FORMAT_KINDS -> 0 .. MaxFormatCopies] } :
        CounterTotal(h) >= 2 }

\* hand is the multiset whose tiles are formatted
InitFormat ==
    /\ hand \in FORMAT_HANDS
    /\ passed = EmptyCounter(TILE_RANGE)
    /\ called = ""
    /\ ret = [raised |-> "", value |-> <<>>]
    /\ NoHand
    /\ NoOther

\* format_tiles(hand.elements())
CallFormatTiles ==
    /\ called = ""
    /\ called' = "format_tiles"
    /\ passed' = hand
    /\ ret' = [raised |-> "", value |-> format_tiles(Elements(hand))]
    /\ UNCHANGED <<hand, hand_vars, call_vars, other_vars>>

\* tiles(pattern) of the string format_tiles returned
CallTiles ==
    /\ called = "format_tiles"
    /\ called' = "tiles"
    /\ ret' = [raised |-> "", value |-> tiles(ret.value)]
    /\ UNCHANGED <<hand, passed, hand_vars, call_vars, other_vars>>

NextFormat ==
    \/ CallFormatTiles
    \/ CallTiles

SpecFormat == InitFormat /\ [][NextFormat]_vars

-----------------------------------------------------------------------------
(* Building a hand from raw input: PlayerHand(concealed) with a Counter or *)
(* a string, and the evaluators called on a raw Counter.                    *)

\* the counts a caller can write into a Counter, the invalid ones included
RAW_COUNTS == (0 - 1) .. (MaxCopies + 1)

RAW_HANDS ==
    { [k \in TILE_RANGE |-> IF k \in HAND_KINDS THEN part[k] ELSE 0] :
        part \in [HAND_KINDS -> RAW_COUNTS] }

PATTERNS ==
    { \* 11111m22222p333s
      <<"1", "1", "1", "1", "1", "m", "2", "2", "2", "2", "2", "p", "3", "3", "3", "s">>,
      \* 123m456p789s (East)(East)(East)(South) with an x and a 0 in it
      <<"1", "2", "3", "m", "x", "4", "5", "6", "p", "0", "7", "8", "9", "s",
        "East", "East", "East", "South">>,
      \* 123m456p789s (East)(East)(East)(South)
      <<"1", "2", "3", "m", "4", "5", "6", "p", "7", "8", "9", "s",
        "East", "East", "East", "South">>,
      \* 12z34m: digits no suit letter follows
      <<"1", "2", "z", "3", "4", "m">>,
      \* 5s
      <<"5", "s">>,
      \* 1x
      <<"1", "x">> }

InitBuild ==
    /\ hand \in RAW_HANDS
    /\ passed = hand
    /\ called = ""
    /\ ret = [raised |-> "", value |-> 0]
    /\ NoHand
    /\ NoOther

\* the body of PlayerHand.__init__ once concealed is a Counter:
\* self._concealed = concealed, self._exposed = [], and update()
Construct(counter, pattern) ==
    \E values \in { ShantenValues(counter) } :
    /\ concealed' = counter
    /\ exposed' = <<>>
    /\ claimable_chow' = ChowTiles(counter)
    /\ claimable_pung' = PungTiles(counter)
    /\ claimable_kong' = KongTiles(counter, <<>>)
    /\ AssignShanten(values)
    /\ last' = "__init__"
    /\ raised' = values.raised
    /\ args' = pattern
    /\ UNCHANGED <<evaluator_vars, claimed, other_vars>>

\* PlayerHand(hand) for the Counter hand
__init__Counter ==
    /\ last = "" /\ called = ""
    /\ Construct(hand, <<>>)

\* PlayerHand(pattern) for a string: Counter(tiles.tiles(pattern)), a
\* TypeError when tiles() returns one tile in place of a tuple
__init__Str ==
    /\ last = "" /\ called = ""
    /\ \E pattern \in PATTERNS :
         \E parsed \in { tiles(pattern) } :
            IF parsed.scalar
            THEN /\ last' = "__init__"
                 /\ raised' = "TypeError"
                 /\ args' = <<pattern>>
                 /\ UNCHANGED <<concealed, exposed, claimable_chow, claimable_pung,
                                claimable_kong, shanten_std, shanten_7, shanten_13,
                                evaluator_vars, claimed, other_vars>>
            ELSE Construct(CounterOf(parsed.result), <<pattern>>)

CallRaw(name, result) ==
    /\ last = ""
    /\ Call(name, result)

NextBuild ==
    \/ __init__Counter
    \/ __init__Str
    \/ CallRaw("count_shanten_std", count_shanten_std(hand))
    \/ CallRaw("count_shanten_seven_pairs", count_shanten_seven_pairs(hand))
    \/ CallRaw("count_shanten_13_orphans", count_shanten_13_orphans(hand))
    \/ CallRaw("count_shanten_naive", count_shanten_naive(hand))

SpecBuild == InitBuild /\ [][NextBuild]_vars

-----
(* What the claims speak of: the size of a hand, its four groups, a greedy   *)
(* strip stated by multiplicities, and the shapes of a standard hand.        *)

Size(h) == CounterTotal(h)

\* the tiles of h of the suit that starts at first, by rank
RanksOf(h, first) ==
    [n \in NUMBER_RANGE |-> IF n <= 9 THEN h[first + n - 1] ELSE 0]

HonorsOf(h) == [k \in TILE_RANGE |-> IF k \in TILE_RANGE_HONORS THEN h[k] ELSE 0]

\* how many copies of group g the counts h hold
Multiplicity(h, g) ==
    CHOOSE n \in 0 .. MaxTiles + 1 :
        /\ \A k \in DOMAIN h : n * g[k] <= h[k]
        /\ \E k \in DOMAIN h : (n + 1) * g[k] > h[k]

\* each group of the list, from the i-th on, taken as often as what is left
\* holds it: the number of groups taken and what is left
RECURSIVE GreedyStrip(_, _, _)
GreedyStrip(h, groups, i) ==
    IF i > Len(groups) THEN [count |-> 0, rest |-> h]
    ELSE LET n == Multiplicity(h, groups[i])
             r == GreedyStrip([k \in DOMAIN h |-> h[k] - n * groups[i][k]], groups, i + 1)
         IN  [count |-> n + r.count, rest |-> r.rest]

GreedyMelds(h) ==
    GreedyStrip(RanksOf(h, TILE_ONE_OF_CHARACTERS), MELDS_NUMBER, 1).count
    + GreedyStrip(RanksOf(h, TILE_ONE_OF_CIRCLES), MELDS_NUMBER, 1).count
    + GreedyStrip(RanksOf(h, TILE_ONE_OF_BAMBOOS), MELDS_NUMBER, 1).count
    + GreedyStrip(HonorsOf(h), MELDS_HONOR, 1).count

GreedyPairs(h) ==
    GreedyStrip(GreedyStrip(RanksOf(h, TILE_ONE_OF_CHARACTERS), MELDS_NUMBER, 1).rest,
                PAIRS_NUMBER, 1).count
    + GreedyStrip(GreedyStrip(RanksOf(h, TILE_ONE_OF_CIRCLES), MELDS_NUMBER, 1).rest,
                  PAIRS_NUMBER, 1).count
    + GreedyStrip(GreedyStrip(RanksOf(h, TILE_ONE_OF_BAMBOOS), MELDS_NUMBER, 1).rest,
                  PAIRS_NUMBER, 1).count
    + GreedyStrip(GreedyStrip(HonorsOf(h), MELDS_HONOR, 1).rest, PAIRS_HONOR, 1).count

\* the rank of a suited tile
RankOf(t) == ((t - TILE_ONE_OF_CHARACTERS) % 9) + 1

\* three identical tiles, and three tiles of one suit in sequence from t
PungOf(t) == [k \in TILE_RANGE |-> IF k = t THEN 3 ELSE 0]
ChowFrom(t) == [k \in TILE_RANGE |-> IF k \in t .. (t + 2) THEN 1 ELSE 0]

ALL_MELDS ==
    { PungOf(t) : t \in TILE_RANGE }
    \cup { ChowFrom(t) : t \in { u \in TILE_RANGE_SUITS : RankOf(u) <= 7 } }

\* two tiles one tile short of a meld: two identical tiles, or two tiles of one
\* suit one or two ranks apart
TwoOf(t, u) ==
    [k \in TILE_RANGE |-> (IF k = t THEN 1 ELSE 0) + (IF k = u THEN 1 ELSE 0)]

ALL_EYES == { TwoOf(t, t) : t \in TILE_RANGE }

ALL_PARTIALS ==
    ALL_EYES
    \cup { TwoOf(t, t + 1) : t \in { u \in TILE_RANGE_SUITS : RankOf(u) <= 8 } }
    \cup { TwoOf(t, t + 2) : t \in { u \in TILE_RANGE_SUITS : RankOf(u) <= 7 } }

Holds(h, g) == \A k \in DOMAIN h : g[k] <= h[k]
Less(h, g) == [k \in DOMAIN h |-> h[k] - g[k]]

\* h is three melds and the four tiles rest
ThreeMeldsAnd(h, rest) ==
    LET held == { m \in ALL_MELDS : Holds(h, m) } IN
    \E m1 \in held : \E m2 \in held : \E m3 \in held :
        /\ Holds(h, [k \in TILE_RANGE |-> m1[k] + m2[k] + m3[k] + rest[k]])
        /\ Size(h) = 9 + Size(rest)

\* a 13-tile tenpai form of the standard shape: 4 melds and a tile, 3 melds
\* with a pair and a partial group, or 3 melds with two pairs
IsTenpaiForm(h) ==
    /\ Size(h) = 13
    /\ \/ \E m \in { x \in ALL_MELDS : Holds(h, x) } : \E t \in Keys(h) :
              ThreeMeldsAnd(h, [k \in TILE_RANGE |-> m[k] + (IF k = t THEN 1 ELSE 0)])
       \/ \E e \in { x \in ALL_EYES : Holds(h, x) } :
              \E q \in { x \in ALL_PARTIALS : Holds(h, x) } :
                  ThreeMeldsAnd(h, [k \in TILE_RANGE |-> e[k] + q[k]])

-----------------------------------------------------------------------------
(* Claims about the evaluators, checked under SpecShanten *)

\* C1: for a hand of n tiles, n mod 3 = 1, count_shanten_std returns
\* 2*((n-1) div 3) - 2*M - min(4, P), M the melds and P the partial groups
\* stripped greedily in each of the four groups; a single tile gives 0.
C1_StdFormula ==
    (called = "count_shanten_std" /\ Size(passed) % 3 = 1) =>
        /\ ret.raised = ""
        /\ ret.value =
             IF Size(passed) = 1 THEN 0
             ELSE 2 * ((Size(passed) - 1) \div 3)
                  - 2 * GreedyMelds(passed) - Min(4, GreedyPairs(passed))

\* a 10-tile hand with five partial groups, more than the formula credits
C1_Witness ==
    /\ called = "count_shanten_std"
    /\ Size(passed) = 10
    /\ GreedyMelds(passed) = 0
    /\ GreedyPairs(passed) = 5
    /\ ret.value = 2

\* C2: for every 13-tile tenpai form of the standard shape count_shanten_std
\* returns exactly 0.
C2_TenpaiIsZero ==
    (called = "count_shanten_std" /\ IsTenpaiForm(passed)) =>
        (ret.raised = "" /\ ret.value = 0)

\* C3: count_shanten_std is in -1..8 on 13 tiles; on 13 or 14 tiles
\* count_shanten_seven_pairs is in -1..6 and count_shanten_13_orphans in -1..13.
C3_Ranges ==
    /\ (called = "count_shanten_std" /\ Size(passed) = 13) =>
           (ret.raised = "" /\ ret.value \in -1 .. 8)
    /\ (called = "count_shanten_seven_pairs" /\ Size(passed) \in {13, 14}) =>
           (ret.raised = "" /\ ret.value \in -1 .. 6)
    /\ (called = "count_shanten_13_orphans" /\ Size(passed) \in {13, 14}) =>
           (ret.raised = "" /\ ret.value \in -1 .. 13)

\* the standard evaluator at the top of its range
C3_Witness ==
    /\ called = "count_shanten_std"
    /\ Size(passed) = 13
    /\ ret.value = 8

\* C4: on 13 or 14 tiles count_shanten_seven_pairs returns 6 minus the number
\* of kinds held at least twice; three or four of a kind are one pair.
C4_SevenPairs ==
    (called = "count_shanten_seven_pairs" /\ Size(passed) \in {13, 14}) =>
        /\ ret.raised = ""
        /\ ret.value =
             6 - (Cardinality(TILE_RANGE)
                  - Cardinality({k \in TILE_RANGE : passed[k] <= 1}))

\* a hand with four of a kind
C4_Witness ==
    /\ called = "count_shanten_seven_pairs"
    /\ Size(passed) = 13
    /\ \E k \in TILE_RANGE : passed[k] = 4
    /\ ret.value = 2

\* C5: on 13 or 14 tiles count_shanten_13_orphans returns 12 - d when a
\* terminal or honor kind is held twice, 13 - d otherwise, d the number of
\* terminal and honor kinds held.
C5_ThirteenOrphans ==
    (called = "count_shanten_13_orphans" /\ Size(passed) \in {13, 14}) =>
        LET orphan == TILE_TERMINALS \cup TILE_RANGE_HONORS
            d == Cardinality({k \in orphan : passed[k] >= 1})
        IN  /\ ret.raised = ""
            /\ ret.value = IF \E k \in orphan : passed[k] >= 2 THEN 12 - d ELSE 13 - d

\* a hand that holds orphans once only, beside tiles that are no orphans
C5_Witness ==
    /\ called = "count_shanten_13_orphans"
    /\ Size(passed) = 13
    /\ \A k \in TILE_TERMINALS \cup TILE_RANGE_HONORS : passed[k] <= 1
    /\ \E k \in TILE_RANGE : passed[k] >= 2
    /\ ret.value = 10

\* C7: a hand of the wrong size is an error, never a value, and the hand is
\* left as it was: count_shanten_std raises unless the size is 1 mod 3, the
\* other two unless it is 13 or 14.
C7_WrongSizeRaises ==
    /\ (called = "count_shanten_std" /\ Size(passed) % 3 # 1) =>
           (ret.raised = "ValueError" /\ hand = passed)
    /\ (called \in {"count_shanten_seven_pairs", "count_shanten_13_orphans"}
        /\ Size(passed) \notin {13, 14}) =>
           (ret.raised = "ValueError" /\ hand = passed)

\* seven pairs asked of a 12-tile hand
C7_Witness ==
    /\ called = "count_shanten_seven_pairs"
    /\ Size(passed) = 12
    /\ ret.raised = "ValueError"
    /\ hand = passed

\* the entries of a table that hold n tiles of one kind, and those whose
\* tiles are span apart
OfAKind(table, n) ==
    { i \in DOMAIN table : \E k \in DOMAIN table[i] : table[i][k] = n }
Apart(table, span) ==
    { i \in DOMAIN table :
        \E k \in DOMAIN table[i] :
            /\ k + span \in DOMAIN table[i]
            /\ table[i][k] = 1
            /\ table[i][k + span] = 1
            /\ \A j \in DOMAIN table[i] : table[i][j] = 1 => j \in k .. (k + span) }

\* C13: the sizes of the tables an evaluator has used, as stated: MELDS_NUMBER has 17 melds (9
\* pungs, 8 chows), PAIRS_NUMBER 25 partial groups (9 simple, 8 serial, 7
\* separated), MELDS_HONOR and PAIRS_HONOR 7 entries each.
C13_TableSizesStated ==
    called # "" =>
        /\ Len(MELDS_NUMBER) = 17
        /\ Cardinality(OfAKind(MELDS_NUMBER, 3)) = 9
        /\ Cardinality(Apart(MELDS_NUMBER, 2)) = 8
        /\ Len(PAIRS_NUMBER) = 25
        /\ Cardinality(OfAKind(PAIRS_NUMBER, 2)) = 9
        /\ Cardinality(Apart(PAIRS_NUMBER, 1)) = 8
        /\ Cardinality(Apart(PAIRS_NUMBER, 2)) = 7
        /\ Len(MELDS_HONOR) = 7
        /\ Len(PAIRS_HONOR) = 7

\* C13 (amended): of the tables an evaluator has used, MELDS_NUMBER has 16 melds (9 pungs, 7 chows), PAIRS_NUMBER
\* 24 partial groups (9 simple, 8 serial, 7 separated), MELDS_HONOR and
\* PAIRS_HONOR 7 entries each.
C13_TableSizes ==
    called # "" =>
        /\ Len(MELDS_NUMBER) = 16
        /\ Cardinality(OfAKind(MELDS_NUMBER, 3)) = 9
        /\ Cardinality(Apart(MELDS_NUMBER, 2)) = 7
        /\ Len(PAIRS_NUMBER) = 24
        /\ Cardinality(OfAKind(PAIRS_NUMBER, 2)) = 9
        /\ Cardinality(Apart(PAIRS_NUMBER, 1)) = 8
        /\ Cardinality(Apart(PAIRS_NUMBER, 2)) = 7
        /\ Len(MELDS_HONOR) = 7
        /\ Len(PAIRS_HONOR) = 7

\* the tables were used: the chow 789, the last of the list, was stripped
\* from a hand evaluated without an error
C13_Witness ==
    /\ called = "count_shanten_std"
    /\ ret.raised = ""
    /\ Size(passed) = 10
    /\ passed[Bamboos(6)] = 0
    /\ passed[Bamboos(7)] = 1
    /\ passed[Bamboos(8)] = 1
    /\ passed[Bamboos(9)] = 1
    /\ Len(MELDS_NUMBER) = 16
    /\ MELDS_NUMBER[14] = NumberChow(7)

\* the first tile of the suit of a suited tile
SuitStart(t) ==
    IF t \in TILE_RANGE_CHARACTERS THEN TILE_ONE_OF_CHARACTERS
    ELSE IF t \in TILE_RANGE_CIRCLES THEN TILE_ONE_OF_CIRCLES
    ELSE TILE_ONE_OF_BAMBOOS

\* what remove_melds and then remove_pairs leave of the group of h that
\* starts at first: tiles in no counted group
LoneRanks(h, first) ==
    remove_pairs(remove_melds(RanksOf(h, first), MELDS_NUMBER).player_hand,
                 PAIRS_NUMBER).player_hand
LoneHonors(h) ==
    remove_pairs(remove_melds(HonorsOf(h), MELDS_HONOR).player_hand,
                 PAIRS_HONOR).player_hand
LoneTiles(h) ==
    { t \in TILE_RANGE_SUITS : LoneRanks(h, SuitStart(t))[RankOf(t)] > 0 }
    \cup { t \in TILE_RANGE_HONORS : LoneHonors(h)[t] > 0 }

\* h with one x less
Without(h, x) == [k \in DOMAIN h |-> h[k] - (IF k = x THEN 1 ELSE 0)]

\* h with one x less and one y more
Replace(h, x, y) ==
    [k \in DOMAIN h |-> h[k] - (IF k = x THEN 1 ELSE 0) + (IF k = y THEN 1 ELSE 0)]

\* h is one tile y away from a meld: it holds the other two tiles of a pung
\* of y or of a chow with y
CompletesMeld(h, y) ==
    \/ h[y] >= 2
    \/ /\ y \in TILE_RANGE_SUITS
       /\ \E t \in { u \in {y - 2, y - 1, y} \cap TILE_RANGE_SUITS :
                        SuitStart(u) = SuitStart(y) /\ RankOf(u) <= 7 } :
              \A u \in (t .. (t + 2)) \ {y} : h[u] >= 1

\* C16 (its weaker half): for a 13-tile hand, replacing a tile that is in no
\* counted group by a tile that completes a meld the other tiles are one tile
\* away from does not increase count_shanten_std.
C16_ReplaceNeverIncreases ==
    (called = "count_shanten_std" /\ Size(passed) = 13 /\ ret.raised = "") =>
        \A x \in LoneTiles(passed) : \A y \in TILE_RANGE \ {x} :
            (passed[y] < MaxCopies /\ CompletesMeld(Without(passed, x), y)) =>
                count_shanten_std(Replace(passed, x, y)).value <= ret.value

\* the evaluator of the given name called on h
Evaluate(name, h) ==
    CASE name = "count_shanten_std" -> count_shanten_std(h)
      [] name = "count_shanten_seven_pairs" -> count_shanten_seven_pairs(h)
      [] name = "count_shanten_13_orphans" -> count_shanten_13_orphans(h)
      [] OTHER -> count_shanten_naive(h)

SuitGroups(h, filter) ==
    StripSuit(convert_suit_to_number(CounterAnd(h, filter)).counter)
HonorGroups(h) == StripHonors(CounterAnd(h, FILTER_HONORS))

\* the tiles of all the groups of a list together
RECURSIVE Together(_, _)
Together(groups, keys) ==
    IF groups = <<>> THEN EmptyCounter(keys)
    ELSE [k \in keys |-> Head(groups)[k] + Together(Tail(groups), keys)[k]]

\* the groups counted in the suit that starts at first are made of tiles of
\* ranks 1..9 of that suit which h holds, each tile in one group at most:
\* three of a rank or three successive ranks for a meld, two tiles at most
\* two ranks apart for a partial group
WithinSuit(h, first, counted) ==
    /\ \A n \in NUMBER_RANGE :
          Together(counted.melds \o counted.pairs, NUMBER_RANGE)[n] <=
              (IF n <= 9 THEN h[first + n - 1] ELSE 0)
    /\ \A i \in DOMAIN counted.melds :
          \E n \in 1 .. 9 :
              \/ counted.melds[i] = NumberPung(n)
              \/ n <= 7 /\ counted.melds[i] = NumberChow(n)
    /\ \A i \in DOMAIN counted.pairs :
          \E n \in 1 .. 9 : \E d \in 0 .. 2 :
              n + d <= 9 /\ counted.pairs[i] = NumberPair(n, n + d)

\* the groups counted in the honors are three or two copies of one honor h
\* holds, each tile in one group at most
WithinHonors(h, counted) ==
    /\ \A k \in TILE_RANGE :
          Together(counted.melds \o counted.pairs, TILE_RANGE)[k] <=
              (IF k \in TILE_RANGE_HONORS THEN h[k] ELSE 0)
    /\ \A i \in DOMAIN counted.melds :
          \E t \in TILE_RANGE_HONORS :
              counted.melds[i] = [k \in TILE_RANGE |-> IF k = t THEN 3 ELSE 0]
    /\ \A i \in DOMAIN counted.pairs :
          \E t \in TILE_RANGE_HONORS :
              counted.pairs[i] = [k \in TILE_RANGE |-> IF k = t THEN 2 ELSE 0]

\* C19: the melds and partial groups that make the value of count_shanten_std
\* lie each within one suit or within the honors, and those of the honors are
\* pungs and pairs of identical tiles only.
C19_GroupsStayInside ==
    (called = "count_shanten_std" /\ ret.raised = "" /\ Size(passed) > 1) =>
        \E m \in { SuitGroups(passed, FILTER_CHARACTERS) } :
        \E p \in { SuitGroups(passed, FILTER_CIRCLES) } :
        \E s \in { SuitGroups(passed, FILTER_BAMBOOS) } :
        \E h \in { HonorGroups(passed) } :
            /\ ret.value =
                 2 * ((Size(passed) - 1) \div 3)
                 - 2 * (Len(m.melds) + Len(p.melds) + Len(s.melds) + Len(h.melds))
                 - Min(4, Len(m.pairs) + Len(p.pairs) + Len(s.pairs) + Len(h.pairs))
            /\ WithinSuit(passed, TILE_ONE_OF_CHARACTERS, m)
            /\ WithinSuit(passed, TILE_ONE_OF_CIRCLES, p)
            /\ WithinSuit(passed, TILE_ONE_OF_BAMBOOS, s)
            /\ WithinHonors(passed, h)

\* 147m147p147s and East, South, West, North once each: no group is counted
C19_Witness ==
    /\ called = "count_shanten_std"
    /\ ret.raised = ""
    /\ ret.value = 8
    /\ passed[East] = 1 /\ passed[South] = 1 /\ passed[West] = 1
    /\ passed[Characters(7)] = 1 /\ passed[Circles(1)] = 1

\* 8s, 9s and 1p, of successive identifiers, with no 6s and no 7s: the 1p is
\* in no group with the bamboos
C19_WitnessAdjacent ==
    /\ called = "count_shanten_std"
    /\ ret.raised = ""
    /\ passed[Bamboos(8)] = 1 /\ passed[Bamboos(9)] = 1 /\ passed[Circles(1)] = 1
    /\ passed[Bamboos(7)] = 0 /\ passed[Bamboos(6)] = 0

-----------------------------------------------------------------------------
(* Claims about remove_melds and remove_pairs, checked under SpecRemove *)

\* each group of the list, from the i-th on, as often as what is left of h
\* holds it
RECURSIVE GreedyGroups(_, _, _)
GreedyGroups(h, groups, i) ==
    IF i > Len(groups) THEN <<>>
    ELSE LET n == Multiplicity(h, groups[i])
         IN  [j \in 1 .. n |-> groups[i]]
             \o GreedyGroups([k \in DOMAIN h |-> h[k] - n * groups[i][k]], groups, i + 1)

\* the table a call was given
TableOf(name, part) == IF name = "remove_melds" THEN MeldsFor(part) ELSE PairsFor(part)

\* C14: remove_melds scans the list of melds in its order and removes each
\* meld as often as the tiles left hold it, so that the residue holds no meld
\* of the list; remove_pairs does so with the list of partial groups.
C14_GreedyRemoval ==
    called \in {"remove_melds", "remove_pairs"} =>
        /\ ret.value = GreedyGroups(passed, TableOf(called, passed), 1)
        /\ \A i \in DOMAIN TableOf(called, passed) :
               ~Holds(hand, TableOf(called, passed)[i])

\* 112233: the chow 123 is removed twice
C14_Witness ==
    /\ called = "remove_melds"
    /\ passed = [k \in NUMBER_RANGE |-> IF k \in 1 .. 3 THEN 2 ELSE 0]
    /\ ret.value = <<NumberChow(1), NumberChow(1)>>
    /\ hand = EmptyCounter(NUMBER_RANGE)

\* the copies of key k in the groups of a list
RECURSIVE CopiesIn(_, _)
CopiesIn(groups, k) ==
    IF groups = <<>> THEN 0 ELSE Head(groups)[k] + CopiesIn(Tail(groups), k)

\* C15: remove_melds and remove_pairs conserve tiles: the groups returned
\* and the residue add up to the part that was passed, and no count of the
\* residue is negative.
C15_Conservation ==
    called \in {"remove_melds", "remove_pairs"} =>
        \A k \in DOMAIN passed :
            /\ hand[k] >= 0
            /\ CopiesIn(ret.value, k) <= passed[k]
            /\ hand[k] + CopiesIn(ret.value, k) = passed[k]

\* 3899: the partial group 89 is removed, 3 and 9 are left
C15_Witness ==
    /\ called = "remove_pairs"
    /\ passed = [k \in NUMBER_RANGE |-> IF k \in {3, 8} THEN 1 ELSE IF k = 9 THEN 2 ELSE 0]
    /\ ret.value = <<NumberPair(8, 9)>>
    /\ hand = [k \in NUMBER_RANGE |-> IF k \in {3, 9} THEN 1 ELSE 0]

-----------------------------------------------------------------------------
(* Claims about PlayerHand, checked under SpecHand *)

\* the methods that run update_shanten, and those that run each of the
\* updates of the claimable tiles
RanUpdate == last = "update"
RanChow ==
    last \in {"update_claimable_tiles_chow", "update_claimable_tiles", "update"}
RanPung ==
    last \in {"update_claimable_tiles_pung", "update_claimable_tiles", "update"}
RanKong ==
    last \in {"update_claimable_tiles_kong", "update_claimable_tiles", "update"}

\* nothing is exposed
FullyConcealed == exposed = <<>>

\* C6: after update(), a fully concealed hand of 13 or 14 tiles has for
\* shanten the least of the standard, seven-pairs and thirteen-orphans
\* numbers; any other hand has the standard number, and its seven-pairs and
\* thirteen-orphans numbers stay None.
C6_ShantenOfHand ==
    RanUpdate =>
        IF FullyConcealed /\ Size(concealed) \in {13, 14}
        THEN /\ raised = ""
             /\ shanten.raised = ""
             /\ shanten.result =
                    Some(Min(count_shanten_std(concealed).value,
                             Min(count_shanten_seven_pairs(concealed).value,
                                 count_shanten_13_orphans(concealed).value)))
        ELSE raised = "" =>
             /\ shanten.raised = ""
             /\ shanten.result = Some(count_shanten_std(concealed).value)
             /\ shanten_7 = None
             /\ shanten_13 = None

\* the suit of a tile: the first tile of its suit, or of the honors
SuitOf(t) ==
    IF t \in TILE_RANGE_CHARACTERS THEN TILE_ONE_OF_CHARACTERS
    ELSE IF t \in TILE_RANGE_CIRCLES THEN TILE_ONE_OF_CIRCLES
    ELSE IF t \in TILE_RANGE_BAMBOOS THEN TILE_ONE_OF_BAMBOOS
    ELSE TILE_EAST_WIND

\* the concealed part holds the tiles of ranks a and b of the suit of t
HoldsRanks(t, a, b) ==
    /\ a \in 1 .. 9
    /\ b \in 1 .. 9
    /\ concealed[SuitOf(t) + a - 1] > 0
    /\ concealed[SuitOf(t) + b - 1] > 0

\* C8: after update_claimable_tiles_chow, t is in claimable_chow exactly when
\* t is a suited tile and the concealed tiles of its suit hold both tiles
\* of (t-2,t-1), (t-1,t+1) or (t+1,t+2) within ranks 1..9; no honor is in it.
C8_ClaimableChow ==
    RanChow =>
        /\ \A t \in TILE_RANGE :
               t \in claimable_chow <=>
                   /\ t \in TILE_RANGE_SUITS
                   /\ \/ HoldsRanks(t, RankOf(t) - 2, RankOf(t) - 1)
                      \/ HoldsRanks(t, RankOf(t) - 1, RankOf(t) + 1)
                      \/ HoldsRanks(t, RankOf(t) + 1, RankOf(t) + 2)
        /\ claimable_chow \subseteq TILE_RANGE_SUITS

\* 8s, 9s, 1p and East are held: 7s can be claimed, 8s, 2p and East cannot
C8_Witness ==
    /\ RanChow
    /\ \A t \in {Bamboos(8), Bamboos(9), Circles(1), East} : concealed[t] > 0
    /\ concealed[Bamboos(7)] = 0
    /\ Bamboos(7) \in claimable_chow
    /\ claimable_chow \cap {Bamboos(8), Circles(2), East} = {}

\* C9: after update_claimable_tiles_pung, t is in claimable_pung exactly when
\* the concealed part holds two or more copies of t.
C9_ClaimablePung ==
    RanPung =>
        /\ claimable_pung \subseteq TILE_RANGE
        /\ \A t \in TILE_RANGE : t \in claimable_pung <=> concealed[t] >= 2

\* a tile held twice can be claimed, a tile held once cannot
C9_Witness ==
    /\ RanPung
    /\ \E t \in TILE_RANGE : concealed[t] = 2 /\ t \in claimable_pung
    /\ \E t \in TILE_RANGE : concealed[t] = 1 /\ t \notin claimable_pung

\* C10: after update_claimable_tiles_kong, t is in claimable_kong exactly when
\* the concealed part holds 3 or 4 copies of t or the exposed part has a Pung
\* of t.
C10_ClaimableKong ==
    RanKong =>
        \A t \in TILE_RANGE :
            t \in claimable_kong <=>
                \/ concealed[t] \in {3, 4}
                \/ \E i \in DOMAIN exposed :
                       exposed[i].class = "Pung" /\ exposed[i].tileinfo = <<t>>

-----------------------------------------------------------------------------
(* Claims about the commits of PlayerHand, checked under SpecCommit *)

RanCommit == last \in {"commit_chow", "commit_pung", "commit_kong"}

\* C11: after a commit_chow, commit_pung or commit_kong the sets
\* claimable_chow, claimable_pung and claimable_kong are the sets computed
\* from the concealed and exposed tiles the hand now has.
C11_ClaimableAfterCommit ==
    RanCommit =>
        /\ claimable_chow = ChowTiles(concealed)
        /\ claimable_pung = PungTiles(concealed)
        /\ claimable_kong = KongTiles(concealed, exposed)

\* C12: while every commit is of a tile that can_claim_chow, can_claim_pung
\* or can_claim_kong answers True for (a Chow with a mate pair of the tile),
\* every count of the concealed part is within 0..4.
C12_CountsInRange ==
    claimed => \A tile \in TILE_RANGE : concealed[tile] \in 0 .. MaxCopies

\* C20: commit_pung(t, d) appends one Pung of t, not concealed, discarded by
\* d, and lowers the count of t by 2; commit_chow(n, a, b) appends one Chow
\* of [n, a, b], not concealed, discarded by LEFT, and lowers the counts of a
\* and b by 1 each; every other count and every earlier meld stays.
C20_CommitEffect ==
    [][ /\ last' = "commit_pung" =>
              /\ exposed' = Append(exposed,
                     [class |-> "Pung", tileinfo |-> <<args'[1]>>,
                      concealed |-> FALSE, discarded_by |-> args'[2]])
              /\ \A tile \in TILE_RANGE :
                     concealed'[tile] =
                         concealed[tile] - (IF tile = args'[1] THEN 2 ELSE 0)
        /\ last' = "commit_chow" =>
              /\ exposed' = Append(exposed,
                     [class |-> "Chow", tileinfo |-> args',
                      concealed |-> FALSE, discarded_by |-> "LEFT"])
              /\ \A tile \in TILE_RANGE :
                     concealed'[tile] =
                         concealed[tile] - (IF tile = args'[2] THEN 1 ELSE 0)
                                         - (IF tile = args'[3] THEN 1 ELSE 0)
      ]_vars

\* a Pung of a tile held once is committed after a Chow: the count is -1
C20_Witness ==
    /\ last = "commit_pung"
    /\ Len(exposed) = 2
    /\ exposed[1].class = "Chow"
    /\ exposed[1].discarded_by = "LEFT"
    /\ exposed[2].class = "Pung"
    /\ exposed[2].discarded_by = "CENTER"
    /\ concealed[args[1]] = -1

\* C21: commit_kong(t, d) with d given appends a Kong of t, not concealed,
\* discarded by d, and lowers the count of t by 3; with no d and 4 copies of
\* t concealed it appends a concealed Kong of t with no discarder and lowers
\* the count by 4; otherwise an exposed Pung of t is replaced at its position
\* by a Kong of t, not concealed, of the Pung's discarded_by, and the number
\* of exposed melds stays.
C21_KongCases ==
    [][ last' = "commit_kong" =>
          IF args'[2] # "None"
          THEN /\ exposed' = Append(exposed,
                      [class |-> "Kong", tileinfo |-> <<args'[1]>>,
                       concealed |-> FALSE, discarded_by |-> args'[2]])
               /\ \A tile \in TILE_RANGE :
                      concealed'[tile] =
                          concealed[tile] - (IF tile = args'[1] THEN 3 ELSE 0)
          ELSE IF concealed[args'[1]] = 4
          THEN /\ exposed' = Append(exposed,
                      [class |-> "Kong", tileinfo |-> <<args'[1]>>,
                       concealed |-> TRUE, discarded_by |-> "None"])
               /\ \A tile \in TILE_RANGE :
                      concealed'[tile] =
                          concealed[tile] - (IF tile = args'[1] THEN 4 ELSE 0)
          ELSE /\ Len(exposed') = Len(exposed)
               /\ \E i \in DOMAIN exposed :
                      /\ exposed[i].class = "Pung"
                      /\ exposed[i].tileinfo = <<args'[1]>>
                      /\ exposed' =
                             [exposed EXCEPT ![i] =
                                 [class |-> "Kong", tileinfo |-> <<args'[1]>>,
                                  concealed |-> FALSE,
                                  discarded_by |-> exposed[i].discarded_by]]
      ]_vars

\* the tiles of the concealed part a commit must take for the meld it has
\* made: 2 for a Chow or a Pung, 3 for a melded Kong, 4 for a concealed Kong,
\* 1 for a Kong made of an exposed Pung, none when no meld was made
Contribution(method, discarded_by, before, after) ==
    IF method \in {"commit_chow", "commit_pung"} THEN 2
    ELSE IF discarded_by # "None" THEN 3
    ELSE IF Len(after) > Len(before) THEN 4
    ELSE IF after # before THEN 1
    ELSE 0

\* C28: a commit takes from the concealed part as many tiles as the player
\* contributes to the meld it makes.
C28_CommitConserves ==
    [][ last' \in {"commit_chow", "commit_pung", "commit_kong"} =>
          CounterTotal(concealed) - CounterTotal(concealed') =
              Contribution(last', args'[2], exposed, exposed')
      ]_vars

-----------------------------------------------------------------------------
(* Claims on the best split of a hand (SpecShanten) *)

\* the sums of a pair of one set and a pair of the other
Plus(A, B) == { <<a[1] + b[1], a[2] + b[2]>> : a \in A, b \in B }

\* the ranks c less d[1] tiles of rank n, d[2] of rank n + 1, d[3] of n + 2
Take(c, n, d) ==
    [k \in DOMAIN c |-> c[k] - (IF k - n + 1 \in DOMAIN d THEN d[k - n + 1] ELSE 0)]

\* every <<M, P>> such that M disjoint melds and P disjoint partial groups
\* can be taken out of the ranks c from rank n on
RECURSIVE SuitSplits(_, _)
SuitSplits(c, n) ==
    IF n > 9 THEN { <<0, 0>> }
    ELSE IF c[n] = 0 THEN SuitSplits(c, n + 1)
    ELSE SuitSplits(Take(c, n, <<1>>), n)
         \cup (IF c[n] >= 3
               THEN Plus({ <<1, 0>> }, SuitSplits(Take(c, n, <<3>>), n)) ELSE {})
         \cup (IF n <= 7 /\ c[n + 1] >= 1 /\ c[n + 2] >= 1
               THEN Plus({ <<1, 0>> }, SuitSplits(Take(c, n, <<1, 1, 1>>), n)) ELSE {})
         \cup (IF c[n] >= 2
               THEN Plus({ <<0, 1>> }, SuitSplits(Take(c, n, <<2>>), n)) ELSE {})
         \cup (IF n <= 8 /\ c[n + 1] >= 1
               THEN Plus({ <<0, 1>> }, SuitSplits(Take(c, n, <<1, 1>>), n)) ELSE {})
         \cup (IF n <= 7 /\ c[n + 2] >= 1
               THEN Plus({ <<0, 1>> }, SuitSplits(Take(c, n, <<1, 0, 1>>), n)) ELSE {})

\* the same for n copies of one honor
HonorSplits(n) ==
    { <<0, 0>> }
    \cup (IF n >= 2 THEN { <<0, 1>> } ELSE {})
    \cup (IF n >= 3 THEN { <<1, 0>> } ELSE {})
    \cup (IF n >= 4 THEN { <<0, 2>> } ELSE {})

RECURSIVE HonorsSplits(_, _)
HonorsSplits(h, S) ==
    IF S = {} THEN { <<0, 0>> }
    ELSE LET t == CHOOSE x \in S : TRUE
         IN  Plus(HonorSplits(h[t]), HonorsSplits(h, S \ {t}))

\* every <<M, P>> of a split of the hand h, each group within one suit or the
\* honors
Splits(h) ==
    Plus(Plus(SuitSplits(RanksOf(h, TILE_ONE_OF_CHARACTERS), 1),
              SuitSplits(RanksOf(h, TILE_ONE_OF_CIRCLES), 1)),
         Plus(SuitSplits(RanksOf(h, TILE_ONE_OF_BAMBOOS), 1),
              HonorsSplits(h, { t \in TILE_RANGE_HONORS : h[t] > 0 })))

\* the least 8 - 2*M - min(4, P) over the splits of h
BestValue(h) ==
    LET values == { 8 - 2 * s[1] - Min(4, s[2]) : s \in Splits(h) }
    IN  CHOOSE v \in values : \A w \in values : v <= w

\* C24: for a 13-tile hand count_shanten_std returns the least value of
\* 8 - 2*M - min(4, P) over all ways to take M disjoint melds and P disjoint
\* partial groups out of the hand.
C24_GreedyIsBest ==
    (called = "count_shanten_std" /\ Size(passed) = 13 /\ ret.raised = "") =>
        ret.value = BestValue(passed)

\* h with one tile t more
With(h, t) == [k \in DOMAIN h |-> h[k] + (IF k = t THEN 1 ELSE 0)]

\* the 14 tiles h split into 4 melds and a pair of identical tiles
IsComplete(h) ==
    /\ Size(h) = 14
    /\ \E t \in { k \in TILE_RANGE : h[k] >= 2 } :
          <<4, 0>> \in Splits(Less(h, TwoOf(t, t)))

\* h waits for a tile it holds fewer than MaxCopies copies of
IsTenpai(h) ==
    \E t \in { k \in TILE_RANGE : h[k] < MaxCopies } : IsComplete(With(h, t))

\* C25: a 13-tile hand with at most 4 copies per kind for which
\* count_shanten_std returns 0 is tenpai.
C25_ZeroIsTenpai ==
    (/\ called = "count_shanten_std"
     /\ Size(passed) = 13
     /\ \A k \in TILE_RANGE : passed[k] \in 0 .. MaxCopies
     /\ ret.raised = ""
     /\ ret.value = 0) => IsTenpai(passed)

\* C26: for a 13-tile hand with at most 4 copies per kind,
\* count_shanten_seven_pairs returns 0 exactly when some tile added gives 14
\* tiles for which it returns -1, seven distinct pairs.
C26_SevenPairsZero ==
    (/\ called = "count_shanten_seven_pairs"
     /\ Size(passed) = 13
     /\ \A k \in TILE_RANGE : passed[k] \in 0 .. MaxCopies
     /\ ret.raised = "") =>
        (ret.value = 0 <=>
            \E t \in TILE_RANGE :
                /\ count_shanten_seven_pairs(With(passed, t)).value = -1
                /\ \A k \in TILE_RANGE : With(passed, t)[k] \in {0, 2})

\* C27: on a hand of 1, 4, 7, 10 or 13 tiles with at most 4 copies per kind
\* count_shanten_std returns, and what it returns is not negative.
C27_StdNotNegative ==
    (/\ called = "count_shanten_std"
     /\ Size(passed) \in {1, 4, 7, 10, 13}
     /\ \A k \in TILE_RANGE : passed[k] \in 0 .. MaxCopies) =>
        (ret.raised = "" /\ ret.value >= 0)

\* four melds were stripped from 13 tiles: the value is 0, not -1
C27_Witness ==
    /\ called = "count_shanten_std"
    /\ Size(passed) = 13
    /\ ret.raised = ""
    /\ ret.value = 0
    /\ passed[Bamboos(6)] = 3 /\ passed[Bamboos(7)] = 3
    /\ passed[Bamboos(8)] = 3 /\ passed[Bamboos(9)] = 3

-----------------------------------------------------------------------------
(* Claims on building a hand (SpecBuild) *)

\* a Counter with more than MaxCopies copies or fewer than 0 copies of a kind
OutOfRange(counter) ==
    \E k \in DOMAIN counter : counter[k] > MaxCopies \/ counter[k] < 0

\* a pattern with a character tiles() knows no tile for
Unknown(pattern) ==
    \E i \in DOMAIN pattern :
        pattern[i] \notin DIGITS \cup DOMAIN _suit_baseid_table \cup DOMAIN _honor_table

\* C17: a hand with more than 4 or fewer than 0 copies of a kind, or built
\* from a string with an unknown tile identifier, is rejected with an error
\* by PlayerHand and by the shanten evaluators.
C17_RejectsInvalid ==
    /\ (last = "__init__" /\ OutOfRange(concealed)) => raised # ""
    /\ (last = "__init__" /\ args # <<>> /\ Unknown(args[1])) => raised # ""
    /\ (called # "" /\ OutOfRange(passed)) => ret.raised # ""

-----------------------------------------------------------------------------
(* Claims on Phase (SpecPhase) *)

\* C22: proceed(update_dealer, increment_counter) with update_dealer moves
\* the hand from 1 to 2 to 3 to 4 and from 4 to 1 with the prevalent wind
\* moving to the next of East, South, West, North, East, and leaves hand and
\* wind otherwise; the counter grows by 1 with increment_counter and is 0
\* otherwise; the hand stays within 1..4.
C22_Proceed ==
    [][ last' = "proceed" =>
          /\ IF args'[1]
             THEN /\ phase'.hand = (IF phase.hand = 4 THEN 1 ELSE phase.hand + 1)
                  /\ phase'.prevalent_wind =
                        (IF phase.hand # 4 THEN phase.prevalent_wind
                         ELSE IF phase.prevalent_wind = 3 THEN 0
                         ELSE phase.prevalent_wind + 1)
             ELSE /\ phase'.hand = phase.hand
                  /\ phase'.prevalent_wind = phase.prevalent_wind
          /\ phase'.counter = (IF args'[2] THEN phase.counter + 1 ELSE 0)
          /\ phase'.hand \in 1 .. 4
      ]_vars

\* the fourth hand of North was left for the first hand of East, the counter
\* growing
C22_Witness ==
    /\ last = "proceed"
    /\ args = <<TRUE, TRUE>>
    /\ phase.prevalent_wind = 0
    /\ phase.hand = 1
    /\ phase.counter = MaxCounter

-----------------------------------------------------------------------------
(* Claims on scoring (SpecScoring) *)

\* C23: with at least one meld, compute_minipoints with the eyes bonus
\* returns 2 more than with the same arguments and no eyes bonus, as it does
\* for the self-draw bonus and for the waiting bonus.
C23_EyesBonus ==
    (called = "compute_minipoints" /\ (args[4] # <<>> \/ args[5] # <<>>)) =>
        /\ args[2] =>
              ret.value =
                  compute_minipoints(args[1], FALSE, args[3], args[4], args[5]) + 2
        /\ args[1] =>
              ret.value =
                  compute_minipoints(FALSE, args[2], args[3], args[4], args[5]) + 2
        /\ args[3] =>
              ret.value =
                  compute_minipoints(args[1], args[2], FALSE, args[4], args[5]) + 2

-----------------------------------------------------------------------------
(* Claims on two hands built from the same arguments (SpecTwin) *)

\* C29: a commit on one PlayerHand changes neither the concealed part nor the
\* exposed part of another PlayerHand built from the same collection and the
\* same exposed list, nor the collection and the list the caller passed
C29_HandsAreIndependent ==
    [][last' \in {"commit_chow", "commit_pung", "commit_kong"} =>
           /\ twin'.concealed = twin.concealed
           /\ twin'.exposed = twin.exposed
           /\ hand' = hand
           /\ twin'.given_exposed = twin.given_exposed]_vars

-----------------------------------------------------------------------------
(* Claims on formatting (SpecFormat) *)

\* C30: for every multiset of at least two tiles, tiles() of the string
\* format_tiles produced is a tuple holding the same multiset
C30_FormatThenParse ==
    called = "tiles" =>
        /\ ~ret.value.scalar
        /\ CounterOf(ret.value.result) = passed

====
